---- MODULE Spec2Model ----
(***************************************************************************)
(* The coordinate-placement image editor of the Digital Wall admin         *)
(* dashboard (components/ImageEditor) together with the state its host     *)
(* pages (NewThemePage, EditThemePage) keep for it.                        *)
(*                                                                         *)
(* A marker is a JavaScript object; the editor compares markers with !==,  *)
(* i.e. by object identity.  A marker is modelled as a record              *)
(* [id, x, y, area] where id is the identity of the object: two records    *)
(* are equal exactly when they are the same object.  A new object gets the *)
(* smallest identity no live object of the page holds.                     *)
(*                                                                         *)
(* x and y are percentages computed from pointer positions; the pointer    *)
(* positions of the model are chosen so that the divisions are exact.      *)
(*                                                                         *)
(* Every handler runs to completion on the single UI thread, and the page  *)
(* has rendered before the next event is dispatched, so each event is one  *)
(* step.  undoStack.pop() and redoStack.shift() change the host's arrays   *)
(* in place; the host state is those arrays, so the steps show the shorter *)
(* stacks.                                                                 *)
(*                                                                         *)
(* The effect on initialCoordinates (ImageEditor lines 43-47) does nothing  *)
(* in NewThemePage, which passes no initialCoordinates.  EditThemePage      *)
(* passes its coordinates state, so the effect is due after every render    *)
(* that brings a new coordinates array.  React runs the effect of a render  *)
(* caused by a discrete event (click, mousedown, mouseup) before that       *)
(* event's task ends; the effect of a render caused by a mousemove or by    *)
(* the settled fetch is a callback of its own, run later, and at the latest *)
(* when the next render starts.  An event handled in between queues its     *)
(* update before the effect queues setCoordinates(initialCoordinates).      *)
(***************************************************************************)
EXTENDS Integers, Sequences, FiniteSets, TLC

VARIABLES
    page,             \* which host page mounts the editor: "new" or "edit"
    fetchPending,     \* EditThemePage: fetchTheme has not settled yet
    coordinates,      \* host state: the Coordinate List
    undoStack,        \* host state: the Undo Stack (most recent last)
    redoStack,        \* host state: the Redo Stack (most recent first)
    selectedArea,     \* host state: "" or the armed area
    backgroundImg,    \* host state: the selected file or null
    backgroundImgUrl, \* host state: the URL the overlay renders, or null
    dragItemRef,      \* editor ref: index of the dragged marker, or nullIndex
    effectPending,    \* editor: the effect on initialCoordinates is yet to run
    event,            \* history: the type of the event handled last
    placed,           \* history: areas armed at the placements of the current run
    scenario,         \* history: progress of the select/place/undo/redo scenario
    dragTrace,        \* history: out-of-bounds moves of the current drag session
    input,            \* history: what the events handled last carried
    log,              \* history: when the markers were placed, undone, moved
    form,             \* the text fields, uploading, error; navigated away
    submit,           \* the handleSubmit in flight, with what it closed over
    firebase,         \* Storage uploads and Themes writes made so far
    handled,          \* history: number of events handled since the mount
    removal,          \* theme deletion: local state, calls in flight, remote
    gallery           \* drawing review: local state, calls in flight, remote

vars == <<page, fetchPending, coordinates, undoStack, redoStack, selectedArea,
          backgroundImg, backgroundImgUrl, dragItemRef, effectPending,
          event, placed, scenario, dragTrace, input, log, form, submit,
          firebase, handled, removal, gallery>>

\* the state of NewThemePage / EditThemePage and of the editor they mount
hostVars == <<page, fetchPending, coordinates, undoStack, redoStack,
              selectedArea, backgroundImg, backgroundImgUrl, dragItemRef,
              effectPending, event, placed, scenario, dragTrace, input, log,
              form, submit, firebase, handled>>

----------------------------------------------------------------------------
(* Bounds of the model *)

\* objects (markers) the page references at one time
MaxObjects == 3

\* events the page handles in one session
MaxEvents == 7

----------------------------------------------------------------------------
(* Values *)

null == "null"
undefined == "undefined"
nullIndex == -1

Areas == {"top", "center", "bottom"}

\* files the admin picks in the file input
Files == {"a.png"}

\* imageRef.current.getBoundingClientRect()
ImageRect == [left |-> 10, top |-> 20, width |-> 200, height |-> 100]

\* pointer positions (clientX, clientY) of clicks and presses; against
\* ImageRect they map to (30, 40) and to (150, 50), which is off the image
Pointers == { <<70, 60>>, <<310, 70>> }

\* pointer positions of mouse moves; they map to (30, 40), (60, 50),
\* (150, 50) and (60, -20)
MovePointers == { <<70, 60>>, <<130, 70>>, <<310, 70>>, <<130, 0>> }

\* documents a theme may hold in the Themes collection
StoredThemes ==
    { [Name |-> "t", description |-> "t", aiPrompts |-> "t",
       topAreaName |-> "undefined", centerAreaName |-> "undefined",
       bottomAreaName |-> "undefined",
       background_img |-> "https://themes/a.png", coordinates |-> << >>],
      [Name |-> "t", description |-> "t", aiPrompts |-> "t",
       topAreaName |-> "t", centerAreaName |-> "t", bottomAreaName |-> "t",
       background_img |-> "https://themes/a.png",
       coordinates |-> << [x |-> 30, y |-> 40, area |-> "top"] >>],
      [Name |-> "t", description |-> "t", aiPrompts |-> "t",
       topAreaName |-> "t", centerAreaName |-> "t", bottomAreaName |-> "t",
       background_img |-> "https://themes/a.png",
       coordinates |-> << [x |-> 30, y |-> 40, area |-> "top"],
                          [x |-> 60, y |-> 50, area |-> "center"] >>] }

\* the required text fields of the theme form, and what the admin types
TextFields ==
    {"themeName", "description", "aiPrompts", "topAreaName", "centerAreaName",
     "bottomAreaName"}

TextValues == {"", "t"}

\* the text field the admin edits after the others
TypedFields == {"bottomAreaName"}

----------------------------------------------------------------------------
(* Helpers *)

Range(s) == { s[i] : i \in 1..Len(s) }

Front(s) == SubSeq(s, 1, Len(s) - 1)

Last(s) == s[Len(s)]

Min(S) == CHOOSE m \in S : \A n \in S : m <= n

\* identities of the objects the page still references
Live(s) == { m.id : m \in Range(s.coordinates) \cup Range(s.undoStack)
                            \cup Range(s.redoStack) }

\* the identity of a newly created object
NewId(used) == Min((1..(Cardinality(used) + 1)) \ used)

\* URL.createObjectURL(file)
createObjectURL(file) == "blob:" \o file

\* ((client - origin) / size) * 100
Percent(client, origin, size) == ((client - origin) * 100) \div size

\* the state of the host page and the refs of the editor, as one record
Cur ==
    [coordinates |-> coordinates, undoStack |-> undoStack,
     redoStack |-> redoStack, selectedArea |-> selectedArea,
     backgroundImg |-> backgroundImg, backgroundImgUrl |-> backgroundImgUrl,
     dragItemRef |-> dragItemRef,
     themeName |-> form.themeName, description |-> form.description,
     aiPrompts |-> form.aiPrompts, topAreaName |-> form.topAreaName,
     centerAreaName |-> form.centerAreaName,
     bottomAreaName |-> form.bottomAreaName,
     uploading |-> form.uploading, error |-> form.error,
     navigated |-> form.navigated,
     submit |-> submit,
     storage |-> firebase.storage, Themes |-> firebase.Themes]

\* the event objects the handlers read
MouseEvent(p) == [clientX |-> p[1], clientY |-> p[2]]

ChangeEvent(file) == [file |-> file]

----------------------------------------------------------------------------
(* The handlers of ImageEditor, as functions from the state s to the next  *)
(* state.                                                                  *)

\* a variant of handleFileChange with a slip in it
handleFileChange_ClearsMarkers(s, e) ==
    IF e.file # undefined
    THEN [s EXCEPT !.backgroundImg = e.file,
                   !.backgroundImgUrl = createObjectURL(e.file),
                   !.coordinates = << >>]
    ELSE s

handleFileChange(s, e) ==
    IF e.file # undefined
    THEN [s EXCEPT !.backgroundImg = e.file,
                   !.backgroundImgUrl = createObjectURL(e.file)]
    ELSE s

\* variants of handleImageClick with a slip in it
handleImageClick_NoArmedCheck(s, e) ==
    LET rect == ImageRect
        x == Percent(e.clientX, rect.left, rect.width)
        y == Percent(e.clientY, rect.top, rect.height)
        newCoord == [id |-> NewId(Live(s)), x |-> x, y |-> y,
                     area |-> s.selectedArea]
    IN [s EXCEPT !.coordinates = Append(s.coordinates, newCoord),
                 !.undoStack = Append(s.undoStack, newCoord),
                 !.redoStack = << >>]

handleImageClick_KeepsRedo(s, e) ==
    IF s.selectedArea = "" THEN s
    ELSE LET rect == ImageRect
             x == Percent(e.clientX, rect.left, rect.width)
             y == Percent(e.clientY, rect.top, rect.height)
             newCoord == [id |-> NewId(Live(s)), x |-> x, y |-> y,
                          area |-> s.selectedArea]
         IN [s EXCEPT !.coordinates = Append(s.coordinates, newCoord),
                      !.undoStack = Append(s.undoStack, newCoord)]

handleImageClick_Prepends(s, e) ==
    IF s.selectedArea = "" THEN s
    ELSE LET rect == ImageRect
             x == Percent(e.clientX, rect.left, rect.width)
             y == Percent(e.clientY, rect.top, rect.height)
             newCoord == [id |-> NewId(Live(s)), x |-> x, y |-> y,
                          area |-> s.selectedArea]
         IN [s EXCEPT !.coordinates = <<newCoord>> \o s.coordinates,
                      !.undoStack = Append(s.undoStack, newCoord),
                      !.redoStack = << >>]

handleImageClick_RejectsOutOfBounds(s, e) ==
    IF s.selectedArea = "" THEN s
    ELSE LET rect == ImageRect
             x == Percent(e.clientX, rect.left, rect.width)
             y == Percent(e.clientY, rect.top, rect.height)
             newCoord == [id |-> NewId(Live(s)), x |-> x, y |-> y,
                          area |-> s.selectedArea]
         IN IF x < 0 \/ x > 100 \/ y < 0 \/ y > 100 THEN s
            ELSE [s EXCEPT !.coordinates = Append(s.coordinates, newCoord),
                           !.undoStack = Append(s.undoStack, newCoord),
                           !.redoStack = << >>]

handleImageClick_CopiesMarker(s, e) ==
    IF s.selectedArea = "" THEN s
    ELSE LET rect == ImageRect
             x == Percent(e.clientX, rect.left, rect.width)
             y == Percent(e.clientY, rect.top, rect.height)
             newCoord == [id |-> NewId(Live(s)), x |-> x, y |-> y,
                          area |-> s.selectedArea]
             pushed == [newCoord EXCEPT !.id = NewId(Live(s) \cup {newCoord.id})]
         IN [s EXCEPT !.coordinates = Append(s.coordinates, newCoord),
                      !.undoStack = Append(s.undoStack, pushed),
                      !.redoStack = << >>]

handleImageClick(s, e) ==
    IF s.selectedArea = "" THEN s
    ELSE LET rect == ImageRect
             x == Percent(e.clientX, rect.left, rect.width)
             y == Percent(e.clientY, rect.top, rect.height)
             newCoord == [id |-> NewId(Live(s)), x |-> x, y |-> y,
                          area |-> s.selectedArea]
         IN [s EXCEPT !.coordinates = Append(s.coordinates, newCoord),
                      !.undoStack = Append(s.undoStack, newCoord),
                      !.redoStack = << >>]

\* dragStartX.current and dragStartY.current are assigned here as well; no
\* code reads them, and they are not part of the state
handleDragStart(s, index, e) ==
    [s EXCEPT !.dragItemRef = index]

\* variants of handleDrag with a slip in it: the moved marker takes the armed
\* area; the moved marker is pushed on the Undo Stack; a missing session is
\* taken for a session on index 0; a move on an index beyond
\* the end of the list adds an element; the bounds check forgets the upper
\* bounds;
\* the bounds check forgets y
handleDrag_DropsArea(s, e) ==
    IF s.dragItemRef = nullIndex THEN s
    ELSE LET rect == ImageRect
             x == Percent(e.clientX, rect.left, rect.width)
             y == Percent(e.clientY, rect.top, rect.height)
         IN IF x < 0 \/ x > 100 \/ y < 0 \/ y > 100 THEN s
            ELSE [s EXCEPT !.coordinates =
                    [index \in 1..Len(s.coordinates) |->
                       IF index - 1 = s.dragItemRef
                       THEN [id |-> NewId(Live(s)), x |-> x, y |-> y,
                             area |-> undefined]
                       ELSE s.coordinates[index]]]

handleDrag_UsesArmedArea(s, e) ==
    IF s.dragItemRef = nullIndex THEN s
    ELSE LET rect == ImageRect
             x == Percent(e.clientX, rect.left, rect.width)
             y == Percent(e.clientY, rect.top, rect.height)
         IN IF x < 0 \/ x > 100 \/ y < 0 \/ y > 100 THEN s
            ELSE [s EXCEPT !.coordinates =
                    [index \in 1..Len(s.coordinates) |->
                       IF index - 1 = s.dragItemRef
                       THEN [id |-> NewId(Live(s)), x |-> x, y |-> y,
                             area |-> s.selectedArea]
                       ELSE s.coordinates[index]]]

handleDrag_PushesUndo(s, e) ==
    IF s.dragItemRef = nullIndex THEN s
    ELSE LET rect == ImageRect
             x == Percent(e.clientX, rect.left, rect.width)
             y == Percent(e.clientY, rect.top, rect.height)
             moved == [index \in 1..Len(s.coordinates) |->
                         IF index - 1 = s.dragItemRef
                         THEN [s.coordinates[index] EXCEPT
                                 !.id = NewId(Live(s)), !.x = x, !.y = y]
                         ELSE s.coordinates[index]]
         IN IF x < 0 \/ x > 100 \/ y < 0 \/ y > 100 THEN s
            ELSE [s EXCEPT !.coordinates = moved,
                           !.undoStack =
                               IF s.dragItemRef + 1 \in 1..Len(moved)
                               THEN Append(s.undoStack,
                                           moved[s.dragItemRef + 1])
                               ELSE s.undoStack]

handleDrag_NoSessionCheck(s, e) ==
    LET rect == ImageRect
        x == Percent(e.clientX, rect.left, rect.width)
        y == Percent(e.clientY, rect.top, rect.height)
        active == IF s.dragItemRef = nullIndex THEN 0 ELSE s.dragItemRef
    IN IF x < 0 \/ x > 100 \/ y < 0 \/ y > 100 THEN s
       ELSE [s EXCEPT !.coordinates =
               [index \in 1..Len(s.coordinates) |->
                  IF index - 1 = active
                  THEN [s.coordinates[index] EXCEPT
                          !.id = NewId(Live(s)), !.x = x, !.y = y]
                  ELSE s.coordinates[index]]]

handleDrag_AssignsAtIndex(s, e) ==
    IF s.dragItemRef = nullIndex THEN s
    ELSE LET rect == ImageRect
             x == Percent(e.clientX, rect.left, rect.width)
             y == Percent(e.clientY, rect.top, rect.height)
             moved == [id |-> NewId(Live(s)), x |-> x, y |-> y,
                       area |-> s.selectedArea]
         IN IF x < 0 \/ x > 100 \/ y < 0 \/ y > 100 THEN s
            ELSE [s EXCEPT !.coordinates =
                    IF s.dragItemRef + 1 \in 1..Len(s.coordinates)
                    THEN [index \in 1..Len(s.coordinates) |->
                            IF index - 1 = s.dragItemRef
                            THEN [s.coordinates[index] EXCEPT
                                    !.id = NewId(Live(s)), !.x = x, !.y = y]
                            ELSE s.coordinates[index]]
                    ELSE Append(s.coordinates, moved)]

handleDrag_ChecksLowerBoundsOnly(s, e) ==
    IF s.dragItemRef = nullIndex THEN s
    ELSE LET rect == ImageRect
             x == Percent(e.clientX, rect.left, rect.width)
             y == Percent(e.clientY, rect.top, rect.height)
         IN IF x < 0 \/ y < 0 THEN s
            ELSE [s EXCEPT !.coordinates =
                    [index \in 1..Len(s.coordinates) |->
                       IF index - 1 = s.dragItemRef
                       THEN [s.coordinates[index] EXCEPT
                               !.id = NewId(Live(s)), !.x = x, !.y = y]
                       ELSE s.coordinates[index]]]

handleDrag_ChecksXOnly(s, e) ==
    IF s.dragItemRef = nullIndex THEN s
    ELSE LET rect == ImageRect
             x == Percent(e.clientX, rect.left, rect.width)
             y == Percent(e.clientY, rect.top, rect.height)
         IN IF x < 0 \/ x > 100 THEN s
            ELSE [s EXCEPT !.coordinates =
                    [index \in 1..Len(s.coordinates) |->
                       IF index - 1 = s.dragItemRef
                       THEN [s.coordinates[index] EXCEPT
                               !.id = NewId(Live(s)), !.x = x, !.y = y]
                       ELSE s.coordinates[index]]]

handleDrag(s, e) ==
    IF s.dragItemRef = nullIndex THEN s
    ELSE LET rect == ImageRect
             x == Percent(e.clientX, rect.left, rect.width)
             y == Percent(e.clientY, rect.top, rect.height)
         IN IF x < 0 \/ x > 100 \/ y < 0 \/ y > 100 THEN s
            ELSE [s EXCEPT !.coordinates =
                    [index \in 1..Len(s.coordinates) |->
                       IF index - 1 = s.dragItemRef
                       THEN [s.coordinates[index] EXCEPT
                               !.id = NewId(Live(s)), !.x = x, !.y = y]
                       ELSE s.coordinates[index]]]

\* variant of handleDragEnd with a slip in it: the session is switched, a
\* release with no session active starts one on index 0
handleDragEnd_SwitchesSession(s) ==
    [s EXCEPT !.dragItemRef = IF s.dragItemRef = nullIndex THEN 0
                              ELSE nullIndex]

handleDragEnd(s) == [s EXCEPT !.dragItemRef = nullIndex]

\* variants of handleUndo with a slip in it
undefinedMarker == [id |-> 0, x |-> 0, y |-> 0, area |-> undefined]

handleUndo_RemovesFirstCoordinate(s) ==
    IF Len(s.undoStack) > 0
    THEN LET lastAction == Last(s.undoStack)
         IN [s EXCEPT !.undoStack = Front(s.undoStack),
                      !.coordinates = Tail(s.coordinates),
                      !.redoStack = <<lastAction>> \o s.redoStack]
    ELSE s

handleUndo_KeepsCoordinate(s) ==
    IF Len(s.undoStack) > 0
    THEN LET lastAction == Last(s.undoStack)
         IN [s EXCEPT !.undoStack = Front(s.undoStack),
                      !.redoStack = <<lastAction>> \o s.redoStack]
    ELSE s

handleUndo_NoRedoPush(s) ==
    IF Len(s.undoStack) > 0
    THEN LET lastAction == Last(s.undoStack)
         IN [s EXCEPT !.undoStack = Front(s.undoStack),
                      !.coordinates =
                          SelectSeq(s.coordinates,
                                    LAMBDA coord : coord # lastAction)]
    ELSE s

handleUndo_AppendsToRedo(s) ==
    IF Len(s.undoStack) > 0
    THEN LET lastAction == Last(s.undoStack)
         IN [s EXCEPT !.undoStack = Front(s.undoStack),
                      !.coordinates =
                          SelectSeq(s.coordinates,
                                    LAMBDA coord : coord # lastAction),
                      !.redoStack = Append(s.redoStack, lastAction)]
    ELSE s

handleUndo_RemovesAtStackIndex(s) ==
    IF Len(s.undoStack) > 0
    THEN LET lastAction == Last(s.undoStack)
             index == Len(s.undoStack)
         IN [s EXCEPT !.undoStack = Front(s.undoStack),
                      !.coordinates =
                          [i \in 1..(Len(s.coordinates) - 1) |->
                              IF i < index THEN s.coordinates[i]
                              ELSE s.coordinates[i + 1]],
                      !.redoStack = <<lastAction>> \o s.redoStack]
    ELSE s

handleUndo_EndsDrag(s) ==
    IF Len(s.undoStack) > 0
    THEN LET lastAction == Last(s.undoStack)
         IN [s EXCEPT !.undoStack = Front(s.undoStack),
                      !.coordinates =
                          SelectSeq(s.coordinates,
                                    LAMBDA coord : coord # lastAction),
                      !.redoStack = <<lastAction>> \o s.redoStack,
                      !.dragItemRef = nullIndex]
    ELSE s

handleUndo_NoLengthCheck(s) ==
    LET lastAction == IF Len(s.undoStack) > 0 THEN Last(s.undoStack)
                      ELSE undefinedMarker
    IN [s EXCEPT !.undoStack = Front(s.undoStack),
                 !.coordinates =
                     SelectSeq(s.coordinates, LAMBDA coord : coord # lastAction),
                 !.redoStack = <<lastAction>> \o s.redoStack]

handleUndo_RemovesLastCoordinate(s) ==
    IF Len(s.undoStack) > 0
    THEN LET lastAction == Last(s.undoStack)
         IN [s EXCEPT !.undoStack = Front(s.undoStack),
                      !.coordinates = Front(s.coordinates),
                      !.redoStack = <<lastAction>> \o s.redoStack]
    ELSE s

handleUndo(s) ==
    IF Len(s.undoStack) > 0
    THEN LET lastAction == Last(s.undoStack)
         IN [s EXCEPT !.undoStack = Front(s.undoStack),
                      !.coordinates =
                          SelectSeq(s.coordinates,
                                    LAMBDA coord : coord # lastAction),
                      !.redoStack = <<lastAction>> \o s.redoStack]
    ELSE s

\* variants of handleRedo with a slip in it
handleRedo_PrependsCoordinate(s) ==
    IF Len(s.redoStack) > 0
    THEN LET lastAction == Head(s.redoStack)
         IN [s EXCEPT !.redoStack = Tail(s.redoStack),
                      !.coordinates = <<lastAction>> \o s.coordinates,
                      !.undoStack = Append(s.undoStack, lastAction)]
    ELSE s

handleRedo_KeepsRedoStack(s) ==
    IF Len(s.redoStack) > 0
    THEN LET lastAction == Head(s.redoStack)
         IN [s EXCEPT !.coordinates = Append(s.coordinates, lastAction),
                      !.undoStack = Append(s.undoStack, lastAction)]
    ELSE s

handleRedo_PushesUndoFront(s) ==
    IF Len(s.redoStack) > 0
    THEN LET lastAction == Head(s.redoStack)
         IN [s EXCEPT !.redoStack = Tail(s.redoStack),
                      !.coordinates = Append(s.coordinates, lastAction),
                      !.undoStack = <<lastAction>> \o s.undoStack]
    ELSE s

handleRedo_TakesLast(s) ==
    IF Len(s.redoStack) > 0
    THEN LET lastAction == Last(s.redoStack)
         IN [s EXCEPT !.redoStack = Front(s.redoStack),
                      !.coordinates = Append(s.coordinates, lastAction),
                      !.undoStack = Append(s.undoStack, lastAction)]
    ELSE s

handleRedo_NoUndoPush(s) ==
    IF Len(s.redoStack) > 0
    THEN LET lastAction == Head(s.redoStack)
         IN [s EXCEPT !.redoStack = Tail(s.redoStack),
                      !.coordinates = Append(s.coordinates, lastAction)]
    ELSE s

handleRedo(s) ==
    IF Len(s.redoStack) > 0
    THEN LET lastAction == Head(s.redoStack)
         IN [s EXCEPT !.redoStack = Tail(s.redoStack),
                      !.coordinates = Append(s.coordinates, lastAction),
                      !.undoStack = Append(s.undoStack, lastAction)]
    ELSE s

\* variant of toggleArea with a slip in it: a one-way set
toggleArea_SetsOnly(s, area) == [s EXCEPT !.selectedArea = area]

toggleArea(s, area) ==
    [s EXCEPT !.selectedArea = IF s.selectedArea = area THEN "" ELSE area]

----------------------------------------------------------------------------
(* EditThemePage: what fetchTheme stores when the document exists.  The   *)
(* stored markers are deserialised into new objects.                       *)

RECURSIVE Materialize(_, _)
Materialize(stored, used) ==
    IF stored = << >> THEN << >>
    ELSE LET id == NewId(used)
         IN <<[id |-> id, x |-> Head(stored).x, y |-> Head(stored).y,
               area |-> Head(stored).area]>>
            \o Materialize(Tail(stored), used \cup {id})

\* data.field || ""
OrEmpty(v) == IF v = undefined THEN "" ELSE v

fetchTheme(s, data) ==
    [s EXCEPT !.themeName = data.Name,
              !.description = data.description,
              !.aiPrompts = data.aiPrompts,
              !.backgroundImgUrl = data.background_img,
              !.coordinates = Materialize(data.coordinates, Live(s)),
              !.topAreaName = OrEmpty(data.topAreaName),
              !.centerAreaName = OrEmpty(data.centerAreaName),
              !.bottomAreaName = OrEmpty(data.bottomAreaName)]

----------------------------------------------------------------------------
(* The form of the host pages: NewThemePage and EditThemePage.  A          *)
(* handleSubmit that passes the validation runs on in steps, one per await *)
(* that reaches Firebase; submit holds the step it waits at and the values *)
(* of the render it closed over.  getDownloadURL writes nothing and is     *)
(* folded into the step of uploadBytes.                                    *)

Idle ==
    [stage |-> "idle", coordinates |-> << >>, backgroundImg |-> null]

Awaiting(stage, s) ==
    [stage |-> stage, coordinates |-> s.coordinates,
     backgroundImg |-> s.backgroundImg]

\* what Firestore keeps of a list of markers: the fields, not the objects
Stored(list) ==
    [i \in 1..Len(list) |->
        [x |-> list[i].x, y |-> list[i].y, area |-> list[i].area]]

\* onChange={(e) => setThemeName(e.target.value)} and the like
setField(s, field, value) ==
    CASE field = "themeName" -> [s EXCEPT !.themeName = value]
      [] field = "description" -> [s EXCEPT !.description = value]
      [] field = "aiPrompts" -> [s EXCEPT !.aiPrompts = value]
      [] field = "topAreaName" -> [s EXCEPT !.topAreaName = value]
      [] field = "centerAreaName" -> [s EXCEPT !.centerAreaName = value]
      [] field = "bottomAreaName" -> [s EXCEPT !.bottomAreaName = value]

\* a variant of NewThemePage_handleSubmit with a slip in it
NewThemePage_handleSubmit_SetsUploadingFirst(s) ==
    IF \/ s.themeName = ""
       \/ s.description = ""
       \/ s.backgroundImg = null
       \/ s.aiPrompts = ""
       \/ s.topAreaName = ""
       \/ s.centerAreaName = ""
       \/ s.bottomAreaName = ""
    THEN [s EXCEPT !.uploading = TRUE, !.error = "All fields are required."]
    ELSE [s EXCEPT !.uploading = TRUE,
                   !.submit = Awaiting("uploadBytes", s)]

\* NewThemePage.handleSubmit, up to its first await
NewThemePage_handleSubmit(s) ==
    IF \/ s.themeName = ""
       \/ s.description = ""
       \/ s.backgroundImg = null
       \/ s.aiPrompts = ""
       \/ s.topAreaName = ""
       \/ s.centerAreaName = ""
       \/ s.bottomAreaName = ""
    THEN [s EXCEPT !.error = "All fields are required."]
    ELSE [s EXCEPT !.uploading = TRUE,
                   !.submit = Awaiting("uploadBytes", s)]

\* a variant of NewThemePage_catch with a slip in it
NewThemePage_catch_KeepsUploading(s) ==
    [s EXCEPT !.error = "Error uploading theme. Please try again.",
              !.submit = Idle]

\* the catch block of NewThemePage.handleSubmit and the line after it
NewThemePage_catch(s) ==
    [s EXCEPT !.error = "Error uploading theme. Please try again.",
              !.uploading = FALSE,
              !.submit = Idle]

\* await uploadBytes(storageRef, backgroundImg) settles
NewThemePage_uploadBytes(s, ok) ==
    IF ok
    THEN [s EXCEPT !.storage = @ \cup {s.submit.backgroundImg},
                   !.submit.stage = "addDoc"]
    ELSE NewThemePage_catch(s)

\* await addDoc(collection(db, "Themes"), {...}) settles
NewThemePage_addDoc(s, ok) ==
    IF ok
    THEN [s EXCEPT !.Themes = Append(@, Stored(s.submit.coordinates)),
                   !.themeName = "",
                   !.description = "",
                   !.aiPrompts = "",
                   !.topAreaName = "",
                   !.centerAreaName = "",
                   !.bottomAreaName = "",
                   !.backgroundImg = null,
                   !.backgroundImgUrl = null,
                   !.coordinates = << >>,
                   !.error = null,
                   !.navigated = TRUE,
                   !.uploading = FALSE,
                   !.submit = Idle]
    ELSE NewThemePage_catch(s)

\* EditThemePage.handleSubmit, up to its first await
EditThemePage_handleSubmit(s) ==
    IF \/ s.themeName = ""
       \/ s.description = ""
       \/ s.aiPrompts = ""
       \/ s.topAreaName = ""
       \/ s.centerAreaName = ""
       \/ s.bottomAreaName = ""
    THEN [s EXCEPT !.error = "All fields are required."]
    ELSE [s EXCEPT !.uploading = TRUE,
                   !.submit =
                       Awaiting(IF s.backgroundImg # null
                                THEN "uploadBytes" ELSE "updateDoc", s)]

\* the catch block of EditThemePage.handleSubmit and the line after it
EditThemePage_catch(s) ==
    [s EXCEPT !.error = "Error updating theme. Please try again.",
              !.uploading = FALSE,
              !.submit = Idle]

\* await uploadBytes(storageRef, backgroundImg) settles
EditThemePage_uploadBytes(s, ok) ==
    IF ok
    THEN [s EXCEPT !.storage = @ \cup {s.submit.backgroundImg},
                   !.submit.stage = "updateDoc"]
    ELSE EditThemePage_catch(s)

\* a variant of EditThemePage_updateDoc with a slip in it
EditThemePage_updateDoc_WritesCurrentList(s, ok) ==
    IF ok
    THEN [s EXCEPT !.Themes = Append(@, Stored(s.coordinates)),
                   !.error = null,
                   !.navigated = TRUE,
                   !.uploading = FALSE,
                   !.submit = Idle]
    ELSE EditThemePage_catch(s)

\* await updateDoc(docRef, {...}) settles
EditThemePage_updateDoc(s, ok) ==
    IF ok
    THEN [s EXCEPT !.Themes = Append(@, Stored(s.submit.coordinates)),
                   !.error = null,
                   !.navigated = TRUE,
                   !.uploading = FALSE,
                   !.submit = Idle]
    ELSE EditThemePage_catch(s)

\* <form onSubmit={handleSubmit}> of the page that is mounted
handleSubmit(s) ==
    IF page = "new" THEN NewThemePage_handleSubmit(s)
    ELSE EditThemePage_handleSubmit(s)

\* the await the handleSubmit in flight waits at settles
settle(s, ok) ==
    CASE s.submit.stage = "uploadBytes" ->
            (IF page = "new" THEN NewThemePage_uploadBytes(s, ok)
             ELSE EditThemePage_uploadBytes(s, ok))
      [] s.submit.stage = "addDoc" -> NewThemePage_addDoc(s, ok)
      [] s.submit.stage = "updateDoc" -> EditThemePage_updateDoc(s, ok)
      [] OTHER -> s

----------------------------------------------------------------------------
(* The effect of ImageEditor on initialCoordinates, and when it runs.       *)

\* the prop initialCoordinates={coordinates} of EditThemePage; NewThemePage
\* passes none (given = FALSE: the prop is undefined)
initialCoordinates(s) == [given |-> page = "edit", value |-> s.coordinates]

\* useEffect(() => { if (initialCoordinates) setCoordinates(...) }, [...])
initialCoordinatesEffect(s, initial) ==
    IF initial.given THEN [s EXCEPT !.coordinates = initial.value] ELSE s

\* the handler of the event calls setCoordinates: the next render has a new
\* coordinates array, also when its elements are those of the old one
SetsCoordinates(type, p, s) ==
    CASE type = "click" -> s.selectedArea # ""
      [] type = "mousemove" ->
             s.dragItemRef # nullIndex
             /\ LET x == Percent(p[1], ImageRect.left, ImageRect.width)
                    y == Percent(p[2], ImageRect.top, ImageRect.height)
                IN ~(x < 0 \/ x > 100 \/ y < 0 \/ y > 100)
      [] type = "undo" -> Len(s.undoStack) > 0
      [] type = "redo" -> Len(s.redoStack) > 0
      [] type = "fetchTheme" -> TRUE
      [] OTHER -> FALSE

\* the handler of the event sets some state, so that a render follows
Renders(type, p, s) ==
    \/ SetsCoordinates(type, p, s)
    \/ type = "toggleArea"
    \/ type = "change" /\ p # undefined
    \/ type = "input" /\ setField(s, p[1], p[2]) # s
    \/ type = "submit" /\ handleSubmit(s) # s
    \/ type = "settle"

\* mousemove is a continuous event and the fetch settles outside any event:
\* the effects of their renders are deferred, and their updates are rendered
\* in one batch with the update a deferred effect queues
Deferred(type) == type \in {"mousemove", "fetchTheme", "settle"}

\* the state committed after the handler made n of s.  With the effect still
\* to run, the render first runs it: its setCoordinates(initialCoordinates)
\* is queued behind the handler's update and, rendered in the same batch,
\* overrides it.  Rendered after a discrete event's update, it is overridden
\* in turn by the effect of that render, which sets the handler's list.
Commit(type, s, n) ==
    IF effectPending /\ Deferred(type)
    THEN initialCoordinatesEffect(n, initialCoordinates(s))
    ELSE n

\* the effect is yet to run after the commit
NextEffectPending(type, p, s) ==
    IF ~Renders(type, p, s) THEN effectPending
    ELSE IF effectPending THEN FALSE
    ELSE /\ initialCoordinates(s).given
         /\ SetsCoordinates(type, p, s)
         /\ Deferred(type)

----------------------------------------------------------------------------
(* History kept for the properties; no handler reads it.                   *)

Broken == <<"broken">>

NoPointer == << >>

InBounds(e) ==
    LET x == Percent(e.clientX, ImageRect.left, ImageRect.width)
        y == Percent(e.clientY, ImageRect.top, ImageRect.height)
    IN x >= 0 /\ x <= 100 /\ y >= 0 /\ y <= 100

\* the areas armed at the armed placements made since the list was last
\* empty, as long as only selectArea and armed placeMarker were called
NextPlaced(type, s, n) ==
    IF type = "click" /\ s.selectedArea # ""
    THEN IF placed = Broken THEN Broken ELSE Append(placed, s.selectedArea)
    ELSE IF type = "toggleArea" THEN placed
    ELSE IF n.coordinates = << >> THEN << >> ELSE Broken

\* 1: "top" armed on an empty editor, 2: then a click at the pointer position
\* <<70, 60>>, 3: then undo, 4: then redo; 0 otherwise
NextScenario(type, p, s, n) ==
    IF /\ type = "toggleArea" /\ s.selectedArea = "" /\ n.selectedArea = "top"
       /\ s.coordinates = << >> /\ s.undoStack = << >> /\ s.redoStack = << >>
    THEN 1
    ELSE IF scenario = 1 /\ type = "click" /\ p = <<70, 60>> THEN 2
    ELSE IF scenario = 2 /\ type = "undo" THEN 3
    ELSE IF scenario = 3 /\ type = "redo" THEN 4
    ELSE 0

\* "rejected": the current drag session has discarded an out-of-bounds move;
\* "recovered": after that, the same session handled an in-bounds move
NextDragTrace(type, p, s) ==
    IF type \in {"mousedown", "mouseup"} THEN "none"
    ELSE IF type = "mousemove" /\ s.dragItemRef # nullIndex
    THEN IF ~InBounds(MouseEvent(p))
         THEN (IF dragTrace = "none" THEN "rejected" ELSE dragTrace)
         ELSE (IF dragTrace = "none" THEN "none" ELSE "recovered")
    ELSE dragTrace

\* for a toggleArea, the area it carried, after the area of the toggleArea
\* handled right before it, if any; for a mousemove, whether its pointer
\* position is "in" or "out" of bounds; for a mousedown and a mouseup,
\* whether it found the editor "idle" or "dragging"; for a change, its file;
\* for an undo and a redo, the event handled right before it;
\* for a submit, whether the validation "rejected" or "accepted" it, after
\* what the submits before it met if only the form was used in between;
\* nothing for the other events
NextInput(type, p) ==
    IF type = "toggleArea"
    THEN (IF event = "toggleArea" THEN <<Last(input), p>> ELSE <<p>>)
    ELSE IF type = "mousemove"
    THEN (IF InBounds(MouseEvent(p)) THEN <<"in">> ELSE <<"out">>)
    ELSE IF type \in {"mousedown", "mouseup"}
    THEN (IF dragItemRef = nullIndex THEN <<"idle">> ELSE <<"dragging">>)
    ELSE IF type = "change"
    THEN <<p>>
    ELSE IF type \in {"undo", "redo"}
    THEN <<event>>
    ELSE IF type \in {"input", "settle"}
    THEN (IF event \in {"input", "submit", "settle"} THEN input ELSE << >>)
    ELSE IF type = "submit"
    THEN (IF event \in {"input", "submit", "settle"} THEN input ELSE << >>)
            \o (IF handleSubmit(Cur).submit.stage = "idle"
                THEN <<"rejected">> ELSE <<"accepted">>)
    ELSE << >>

\* the identities of the elements of a sequence, in its order
Ids(s) == [i \in 1..Len(s) |-> s[i].id]

\* the elements of a set of at most one element, as a sequence
AsSeq(S) == IF S = {} THEN << >> ELSE <<CHOOSE x \in S : TRUE>>

\* done: the markers of the Undo Stack in the order in which they were placed
\* or redone last; undone: the markers of the Redo Stack in the order in
\* which they were undone; moved: the markers of the Coordinate List that an
\* updateDrag made; seed: the markers fetchTheme loaded before any marker was
\* on the Undo Stack; plain: no updateDrag has made a marker and no fetchTheme
\* has loaded markers later than that; fetched: the markers of the Coordinate
\* List that fetchTheme loaded.  s is the state the event found, c the state
\* committed.
NextLog(type, s, c) ==
    LET before == Range(s.coordinates) \cup Range(s.undoStack)
                     \cup Range(s.redoStack)
        pushed == IF type \in {"click", "redo"}
                  THEN { m.id : m \in Range(c.undoStack) \ Range(s.undoStack) }
                  ELSE {}
        popped == IF type = "undo"
                  THEN { m.id : m \in Range(c.redoStack) \ Range(s.redoStack) }
                  ELSE {}
        made == IF type = "mousemove"
                THEN { m.id : m \in Range(c.coordinates) \ before }
                ELSE {}
    IN [done |-> SelectSeq(log.done,
                           LAMBDA i : i \in Range(Ids(c.undoStack)) \ pushed)
                    \o AsSeq(pushed),
        undone |-> SelectSeq(log.undone,
                             LAMBDA i : i \in Range(Ids(c.redoStack)) \ popped)
                    \o AsSeq(popped),
        moved |-> (log.moved \cap Range(Ids(c.coordinates))) \cup made,
        seed |-> IF type = "fetchTheme" /\ s.undoStack = << >>
                 THEN Ids(c.coordinates) ELSE log.seed,
        plain |-> /\ log.plain
                  /\ made = {}
                  /\ type = "fetchTheme" => s.undoStack = << >>,
        fetched |-> (log.fetched \cap Range(Ids(c.coordinates)))
                       \cup (IF type = "fetchTheme"
                             THEN { m.id : m \in Range(c.coordinates) \ before }
                             ELSE {})]

\* the handler of an event of the given type makes n of the state of the
\* host page and the refs of the editor (p: the pointer position of the
\* event, the area of a toggleArea, the file of a change), and the page
\* commits the outcome
Handle(type, p, n) ==
    LET c == Commit(type, Cur, n)
    IN /\ ~form.navigated
       /\ Cardinality(Live(c)) <= MaxObjects
       /\ coordinates' = c.coordinates
       /\ undoStack' = c.undoStack
       /\ redoStack' = c.redoStack
       /\ selectedArea' = c.selectedArea
       /\ backgroundImg' = c.backgroundImg
       /\ backgroundImgUrl' = c.backgroundImgUrl
       /\ dragItemRef' = c.dragItemRef
       /\ effectPending' = NextEffectPending(type, p, Cur)
       /\ event' = type
       /\ placed' = NextPlaced(type, Cur, c)
       /\ scenario' = NextScenario(type, p, Cur, c)
       /\ dragTrace' = NextDragTrace(type, p, Cur)
       /\ input' = NextInput(type, p)
       /\ log' = NextLog(type, Cur, c)
       /\ form' = [themeName |-> c.themeName, description |-> c.description,
                   aiPrompts |-> c.aiPrompts, topAreaName |-> c.topAreaName,
                   centerAreaName |-> c.centerAreaName,
                   bottomAreaName |-> c.bottomAreaName,
                   uploading |-> c.uploading, error |-> c.error,
                   navigated |-> c.navigated]
       /\ submit' = c.submit
       /\ firebase' = [storage |-> c.storage, Themes |-> c.Themes]
       /\ UNCHANGED <<page, removal, gallery>>

\* one of the events of the session
Step(type, p, n) ==
    /\ handled < MaxEvents
    /\ handled' = handled + 1
    /\ Handle(type, p, n)

----------------------------------------------------------------------------
(* Theme deletion: ManageThemes (the theme list) and EditThemePage.        *)
(* handleDelete awaits deleteDrawingsForTheme, then deleteDoc of the theme, *)
(* then deleteObject of the background image.  deleteDrawingsForTheme maps  *)
(* the drawings of the theme to one async chain each (original image, then  *)
(* the enhanced images together, then the document) and awaits Promise.all  *)
(* of the chains: the chains run side by side, and Promise.all rejects as   *)
(* soon as one of them does while the others go on.  One handleDelete per   *)
(* visit of the page is followed.                                           *)

\* the Themes collection: id and background_img
RemoteThemes ==
    { [id |-> "T1", background_img |-> "bg1"],
      [id |-> "T2", background_img |-> "bg2"] }

\* the Drawings collection: id, theme_id, original_drawing, enhanced_drawings
RemoteDrawings ==
    { [id |-> "d1", theme_id |-> "T1", original_drawing |-> "o1",
       enhanced_drawings |-> {"e1a", "e1b"}],
      [id |-> "d2", theme_id |-> "T1", original_drawing |-> "o2",
       enhanced_drawings |-> {"e2"}],
      [id |-> "d3", theme_id |-> "T2", original_drawing |-> "o3",
       enhanced_drawings |-> {}] }

\* the objects of Firebase Storage the themes and the drawings point at
RemoteObjects ==
    { t.background_img : t \in RemoteThemes }
      \cup { d.original_drawing : d \in RemoteDrawings }
      \cup UNION { d.enhanced_drawings : d \in RemoteDrawings }

\* no theme is selected
NoTheme == [id |-> null, background_img |-> null]

\* a remote call in flight
Call(op, target) == [op |-> op, target |-> target]

\* the page after construction: p is "manage" for ManageThemes, whose
\* fetchThemes is in flight, and "edit" for EditThemePage of theme T1
ThemesOf(p) ==
    [page |-> p,
     themes |-> {},
     selectedTheme |-> NoTheme,
     confirmDelete |-> FALSE,
     themeToDelete |-> NoTheme,
     navigated |-> FALSE,
     stage |-> "idle",
     themeId |-> null,
     chain |-> [d \in RemoteDrawings |-> "none"],
     calls |-> IF p = "manage" THEN {Call("getDocs", "Themes")} ELSE {},
     issued |-> {},
     failed |-> {},
     Themes |-> RemoteThemes,
     Drawings |-> RemoteDrawings,
     storage |-> RemoteObjects]

\* a remote call is made
Issue(r, cs) ==
    [r EXCEPT !.calls = @ \cup cs, !.issued = @ \cup cs]

\* ManageThemes.fetchThemes after its await
fetchThemes(r, ok) ==
    IF ok THEN [r EXCEPT !.themes = r.Themes] ELSE r

\* handleDelete up to its first await, the getDocs of deleteDrawingsForTheme
handleDelete(r, themeId) ==
    Issue([r EXCEPT !.stage = "getDocs", !.themeId = themeId],
          {Call("getDocs", themeId)})

\* the catch block of handleDelete, reached from the await that rejected
handleDelete_catch(r) ==
    IF r.stage \in {"getDocs", "deleteDrawingsForTheme", "deleteDoc",
                    "deleteObject"}
    THEN [r EXCEPT !.stage = "failed"]
    ELSE r

\* handleDelete after deleteDrawingsForTheme has resolved: deleteDoc of the
\* theme document
handleDelete_deleteDoc(r) ==
    Issue([r EXCEPT !.stage = "deleteDoc"], {Call("deleteDoc", r.themeId)})

\* handleDelete after deleteDoc has resolved: deleteObject of the background
\* image
handleDelete_deleteObject(r) ==
    LET t == CHOOSE t \in RemoteThemes : t.id = r.themeId
    IN Issue([r EXCEPT !.stage = "deleteObject"],
             {Call("deleteObject", t.background_img)})

\* handleDelete after deleteObject has resolved: ManageThemes updates its
\* list and closes the dialogs, EditThemePage navigates
handleDelete_resolved(r) ==
    IF r.page = "manage"
    THEN [r EXCEPT !.stage = "done",
                   !.themes = { t \in @ : t.id # r.themeId },
                   !.selectedTheme = NoTheme,
                   !.confirmDelete = FALSE,
                   !.themeToDelete = NoTheme]
    ELSE [r EXCEPT !.stage = "done", !.navigated = TRUE]

\* Promise.all(deletePromises) resolves when the last chain has, and
\* deleteDrawingsForTheme with it
deleteDrawingsForTheme_all(r) ==
    IF /\ r.stage = "deleteDrawingsForTheme"
       /\ \A d \in RemoteDrawings : r.chain[d] \in {"none", "done"}
    THEN handleDelete_deleteDoc(r)
    ELSE r

\* a chain rejects: Promise.all(deletePromises) rejects unless it has
\* already, and handleDelete catches
deleteDrawingsForTheme_reject(r, d) ==
    IF r.chain[d] \in {"none", "done", "failed"}
    THEN r
    ELSE handleDelete_catch([r EXCEPT !.chain[d] = "failed"])

\* the chain of drawing d reaches await deleteDoc(drawingDoc.ref)
deleteDrawingsForTheme_deleteDoc(r, d) ==
    Issue([r EXCEPT !.chain[d] = "deleteDoc"], {Call("deleteDoc", d.id)})

\* the chain of drawing d after deleteObject of the original image has
\* resolved: the deleteObject of every enhanced image, then Promise.all
deleteDrawingsForTheme_enhanced(r, d) ==
    IF d.enhanced_drawings = {}
    THEN deleteDrawingsForTheme_deleteDoc(r, d)
    ELSE Issue([r EXCEPT !.chain[d] = "enhanced"],
               { Call("deleteObject", url) : url \in d.enhanced_drawings })

\* deleteDrawingsForTheme after getDocs has resolved: one chain per drawing
\* of the theme, each up to its await deleteObject(originalStorageRef)
deleteDrawingsForTheme_map(r) ==
    LET docs == { d \in r.Drawings : d.theme_id = r.themeId }
    IN deleteDrawingsForTheme_all(
         Issue([r EXCEPT !.stage = "deleteDrawingsForTheme",
                         !.chain = [d \in RemoteDrawings |->
                                      IF d \in docs THEN "original"
                                      ELSE "none"]],
               { Call("deleteObject", d.original_drawing) : d \in docs }))

\* what the remote service has done when call c resolves
Served(r, c) ==
    CASE c.op = "deleteObject" ->
           [r EXCEPT !.storage = @ \ {c.target}]
      [] c.op = "deleteDoc" ->
           [r EXCEPT !.Themes = { t \in @ : t.id # c.target },
                     !.Drawings = { d \in @ : d.id # c.target }]
      [] OTHER -> r

\* the continuation of the await on call c that resolved
Resolved(r, c) ==
    LET theme == { t \in RemoteThemes : t.id = r.themeId }
        ofOriginal == { d \in RemoteDrawings :
                          /\ d.original_drawing = c.target
                          /\ r.chain[d] = "original" }
        ofEnhanced == { d \in RemoteDrawings :
                          /\ c.target \in d.enhanced_drawings
                          /\ r.chain[d] = "enhanced" }
        ofDoc == { d \in RemoteDrawings :
                     d.id = c.target /\ r.chain[d] = "deleteDoc" }
    IN CASE c = Call("getDocs", "Themes") -> fetchThemes(r, TRUE)
         [] c.op = "getDocs" /\ c.target # "Themes" ->
              deleteDrawingsForTheme_map(r)
         [] ofOriginal # {} ->
              deleteDrawingsForTheme_enhanced(r, CHOOSE d \in ofOriginal : TRUE)
         [] ofEnhanced # {} ->
              LET d == CHOOSE d \in ofEnhanced : TRUE
              IN IF \E url \in d.enhanced_drawings :
                       Call("deleteObject", url) \in r.calls
                 THEN r
                 ELSE deleteDrawingsForTheme_deleteDoc(r, d)
         [] ofDoc # {} ->
              deleteDrawingsForTheme_all(
                [r EXCEPT !.chain[CHOOSE d \in ofDoc : TRUE] = "done"])
         [] c.op = "deleteDoc" /\ c.target = r.themeId
              /\ r.stage = "deleteDoc" ->
              handleDelete_deleteObject(r)
         [] c.op = "deleteObject" /\ r.stage = "deleteObject"
              /\ c.target \in { t.background_img : t \in theme } ->
              handleDelete_resolved(r)
         [] OTHER -> r

\* the continuation of the await on call c that rejected
Rejected(r, c) ==
    LET of == { d \in RemoteDrawings :
                  \/ d.original_drawing = c.target
                  \/ c.target \in d.enhanced_drawings
                  \/ d.id = c.target }
    IN CASE c = Call("getDocs", "Themes") -> fetchThemes(r, FALSE)
         [] of # {} ->
              deleteDrawingsForTheme_reject(r, CHOOSE d \in of : TRUE)
         [] OTHER -> handleDelete_catch(r)

\* call c in flight settles
Settled(r, c, ok) ==
    LET landed == [r EXCEPT !.calls = @ \ {c}]
    IN IF ok
       THEN Resolved(Served(landed, c), c)
       ELSE Rejected([landed EXCEPT !.failed = @ \cup {c}], c)

----------------------------------------------------------------------------
(* Drawing review: Gallery.  fetchDrawings, handleDelete and handleApprove  *)
(* each make one remote call and touch the local state after it resolved;   *)
(* none of the buttons is disabled while a call is in flight.  Of the three *)
(* filters the review status is followed.                                   *)

\* calls in flight at a time
MaxCalls == 2

\* the Drawings collection as the gallery shows it: id and isReviewed
GalleryDrawings ==
    << [id |-> "d1", isReviewed |-> FALSE],
       [id |-> "d2", isReviewed |-> FALSE] >>

\* <option value=...> of the review status filter that the admin picks:
\* all drawings or the review queue ("reviewed" filters the same way)
ReviewStatuses == {"", "unreviewed"}

\* no call has settled yet
NoCall == [op |-> "none", arg |-> "", ok |-> FALSE]

\* no drawing is selected
NoDrawing == [id |-> null, isReviewed |-> FALSE]

\* the page after construction
Gallery ==
    [drawings |-> << >>,
     selectedDrawing |-> NoDrawing,
     reviewStatus |-> "",
     loading |-> FALSE,
     noResults |-> FALSE,
     calls |-> << >>,
     Drawings |-> GalleryDrawings,
     last |-> "mount",
     settled |-> NoCall]

\* the sequence without its i-th element
Without(seq, i) == SubSeq(seq, 1, i - 1) \o SubSeq(seq, i + 1, Len(seq))

\* fetchDrawings up to its await: the query with the conditions
fetchDrawings(g) ==
    [g EXCEPT !.loading = TRUE, !.noResults = FALSE,
              !.calls = Append(@, [op |-> "getDocs", arg |-> g.reviewStatus])]

\* what the query of fetchDrawings returns
querySnapshot(g, status) ==
    LET Matches(d) == \/ status = ""
                      \/ d.isReviewed = (status = "reviewed")
    IN SelectSeq(g.Drawings, Matches)

\* fetchDrawings after its await
fetchDrawings_resolved(g, status) ==
    LET drawingsList == querySnapshot(g, status)
    IN [g EXCEPT !.drawings = drawingsList, !.loading = FALSE,
                 !.noResults = (Len(drawingsList) = 0)]

\* the catch block of fetchDrawings
fetchDrawings_catch(g) == [g EXCEPT !.loading = FALSE]

\* Gallery.handleDelete up to its await
Gallery_handleDelete(g, drawingId) ==
    [g EXCEPT !.calls = Append(@, [op |-> "deleteDoc", arg |-> drawingId])]

\* a variant of Gallery_handleDelete_resolved with a slip in it
Gallery_handleDelete_resolved_KeepsDrawing(g, drawingId) ==
    LET Is(drawing) == drawing.id = drawingId
    IN [g EXCEPT !.drawings = SelectSeq(@, Is),
                 !.selectedDrawing = NoDrawing]

\* Gallery.handleDelete after its await
Gallery_handleDelete_resolved(g, drawingId) ==
    LET Other(drawing) == drawing.id # drawingId
    IN [g EXCEPT !.drawings = SelectSeq(@, Other),
                 !.selectedDrawing = NoDrawing]

\* Gallery.handleApprove up to its await
Gallery_handleApprove(g, drawingId) ==
    [g EXCEPT !.calls = Append(@, [op |-> "updateDoc", arg |-> drawingId])]

\* Gallery.handleApprove after its await
Gallery_handleApprove_resolved(g, drawingId) ==
    [g EXCEPT !.drawings =
                 [i \in DOMAIN @ |->
                    IF @[i].id = drawingId
                    THEN [@[i] EXCEPT !.isReviewed = TRUE]
                    ELSE @[i]],
              !.selectedDrawing = NoDrawing]

\* what Firestore has done when call c resolves
Gallery_Served(g, c) ==
    LET Other(d) == d.id # c.arg
    IN CASE c.op = "deleteDoc" ->
              [g EXCEPT !.Drawings = SelectSeq(@, Other)]
         [] c.op = "updateDoc" ->
              [g EXCEPT !.Drawings =
                           [i \in DOMAIN @ |->
                              IF @[i].id = c.arg
                              THEN [@[i] EXCEPT !.isReviewed = TRUE]
                              ELSE @[i]]]
         [] OTHER -> g

\* updateDoc rejects when the document is gone; the other calls may resolve
\* or reject
MayResolve(g, c) ==
    c.op = "updateDoc" => \E i \in DOMAIN g.Drawings : g.Drawings[i].id = c.arg

\* the i-th call in flight settles
Gallery_Settled(g, i, ok) ==
    LET c == g.calls[i]
        landed == [g EXCEPT !.calls = Without(@, i),
                            !.settled = [op |-> c.op, arg |-> c.arg,
                                         ok |-> ok]]
        served == Gallery_Served(landed, c)
    IN CASE c.op = "getDocs" ->
              IF ok THEN fetchDrawings_resolved(served, c.arg)
                    ELSE fetchDrawings_catch(landed)
         [] c.op = "deleteDoc" ->
              IF ok THEN Gallery_handleDelete_resolved(served, c.arg)
                    ELSE landed
         [] c.op = "updateDoc" ->
              IF ok THEN Gallery_handleApprove_resolved(served, c.arg)
                    ELSE landed

----------------------------------------------------------------------------
(* Initial state: the host page has just mounted the editor.               *)

\* the form with every text field holding value
FormOf(value) ==
    [themeName |-> value, description |-> value, aiPrompts |-> value,
     topAreaName |-> value, centerAreaName |-> value,
     bottomAreaName |-> value, uploading |-> FALSE, error |-> null,
     navigated |-> FALSE]

Mounted(p) ==
    /\ page = p
    /\ form \in {FormOf(""), FormOf("t")}
    /\ submit = Idle
    /\ firebase = [storage |-> {}, Themes |-> << >>]
    /\ fetchPending = (p = "edit")
    /\ coordinates = << >>
    /\ undoStack = << >>
    /\ redoStack = << >>
    /\ selectedArea = ""
    /\ backgroundImg = null
    /\ backgroundImgUrl = null
    /\ dragItemRef = nullIndex
    /\ effectPending = FALSE
    /\ event = "mount"
    /\ placed = << >>
    /\ scenario = 0
    /\ dragTrace = "none"
    /\ input = << >>
    /\ log = [done |-> << >>, undone |-> << >>, moved |-> {},
              seed |-> << >>, plain |-> TRUE, fetched |-> {}]
    /\ handled = 0
    /\ removal = ThemesOf(p)
    /\ gallery = Gallery

\* NewThemePage
Init == Mounted("new") /\ form = FormOf("")

\* EditThemePage
EditInit == Mounted("edit") /\ form = FormOf("")

\* EditThemePage when the theme has loaded: fetchTheme has resolved with
\* data, the one event handled so far, and the effect on initialCoordinates
\* has run
Loaded(data) ==
    LET s == fetchTheme([coordinates |-> << >>, undoStack |-> << >>,
                         redoStack |-> << >>, backgroundImgUrl |-> null,
                         themeName |-> "", description |-> "",
                         aiPrompts |-> "", topAreaName |-> "",
                         centerAreaName |-> "", bottomAreaName |-> ""], data)
    IN /\ page = "edit"
       /\ fetchPending = FALSE
       /\ coordinates = s.coordinates
       /\ undoStack = << >>
       /\ redoStack = << >>
       /\ selectedArea = ""
       /\ backgroundImg = null
       /\ backgroundImgUrl = s.backgroundImgUrl
       /\ dragItemRef = nullIndex
       /\ effectPending = FALSE
       /\ event = "mount"
       /\ placed = << >>
       /\ scenario = 0
       /\ dragTrace = "none"
       /\ input = << >>
       /\ log = [done |-> << >>, undone |-> << >>, moved |-> {},
                 seed |-> Ids(s.coordinates), plain |-> TRUE,
                 fetched |-> Range(Ids(s.coordinates))]
       /\ form = [themeName |-> s.themeName, description |-> s.description,
                  aiPrompts |-> s.aiPrompts, topAreaName |-> s.topAreaName,
                  centerAreaName |-> s.centerAreaName,
                  bottomAreaName |-> s.bottomAreaName,
                  uploading |-> FALSE, error |-> null, navigated |-> FALSE]
       /\ submit = Idle
       /\ firebase = [storage |-> {}, Themes |-> << >>]
       /\ handled = 1
       /\ removal = ThemesOf("edit")
       /\ gallery = Gallery

\* NewThemePage with the text fields still empty or already typed, or
\* EditThemePage with a theme of one marker loaded
SaveInit ==
    \/ Mounted("new")
    \/ \E data \in { d \in StoredThemes : Len(d.coordinates) = 1 } :
          Loaded(data)

----------------------------------------------------------------------------
(* One action per event the page handles.  The overlay, the undo/redo and  *)
(* the area buttons are rendered only while backgroundImgUrl is set.       *)

OverlayRendered == backgroundImgUrl # null

\* <input type="file" onChange={handleFileChange}>
SelectBackgroundImageOf(file) ==
    /\ Step("change", file, handleFileChange(Cur, ChangeEvent(file)))
    /\ UNCHANGED fetchPending

SelectBackgroundImage ==
    \E file \in Files \cup {undefined} : SelectBackgroundImageOf(file)

\* <img onClick={handleImageClick}>
PlaceMarkerAt(p) ==
    /\ OverlayRendered
    /\ Step("click", p, handleImageClick(Cur, MouseEvent(p)))
    /\ UNCHANGED fetchPending

PlaceMarker == \E p \in Pointers : PlaceMarkerAt(p)

\* <div onMouseDown={(e) => handleDragStart(index, e)}> of a rendered marker
BeginDragOf(index, p) ==
    /\ OverlayRendered
    /\ index \in 0..(Len(coordinates) - 1)
    /\ Step("mousedown", p, handleDragStart(Cur, index, MouseEvent(p)))
    /\ UNCHANGED fetchPending

BeginDrag ==
    \E index \in 0..(MaxObjects - 1), p \in Pointers : BeginDragOf(index, p)

\* <div onMouseMove={handleDrag}>
UpdateDragTo(p) ==
    /\ OverlayRendered
    /\ Step("mousemove", p, handleDrag(Cur, MouseEvent(p)))
    /\ UNCHANGED fetchPending

UpdateDrag == \E p \in MovePointers : UpdateDragTo(p)

\* <div onMouseUp={handleDragEnd}>
EndDrag ==
    /\ OverlayRendered
    /\ Step("mouseup", NoPointer, handleDragEnd(Cur))
    /\ UNCHANGED fetchPending

\* <button onClick={handleUndo}>
Undo ==
    /\ OverlayRendered
    /\ Step("undo", NoPointer, handleUndo(Cur))
    /\ UNCHANGED fetchPending

\* <button onClick={handleRedo}>
Redo ==
    /\ OverlayRendered
    /\ Step("redo", NoPointer, handleRedo(Cur))
    /\ UNCHANGED fetchPending

\* <button onClick={() => toggleArea(area)}>
SelectAreaOf(area) ==
    /\ OverlayRendered
    /\ Step("toggleArea", area, toggleArea(Cur, area))
    /\ UNCHANGED fetchPending

SelectArea == \E area \in Areas : SelectAreaOf(area)

\* EditThemePage: the getDoc of fetchTheme resolves with an existing document
FetchThemeOf(data) ==
    /\ page = "edit"
    /\ fetchPending
    /\ fetchPending' = FALSE
    /\ Step("fetchTheme", NoPointer, fetchTheme(Cur, data))

FetchTheme == \E data \in StoredThemes : FetchThemeOf(data)

\* the deferred effect on initialCoordinates runs before any other event is
\* handled: it sets the list the page holds, and no render follows
LoadInitialMarkers ==
    /\ effectPending
    /\ effectPending' = FALSE
    /\ coordinates' =
          initialCoordinatesEffect(Cur, initialCoordinates(Cur)).coordinates
    /\ UNCHANGED <<page, fetchPending, undoStack, redoStack, selectedArea,
                   backgroundImg, backgroundImgUrl, dragItemRef,
                   event, placed, scenario, dragTrace, input, log, form,
                   submit, firebase, handled, removal, gallery>>

\* <input onChange={(e) => setThemeName(e.target.value)}> and the like
ChangeFieldOf(field, value) ==
    /\ Step("input", <<field, value>>, setField(Cur, field, value))
    /\ UNCHANGED fetchPending

ChangeField ==
    \E field \in TypedFields, value \in TextValues :
        ChangeFieldOf(field, value)

\* <button type="submit" disabled={uploading}> of <form onSubmit=...>
Save ==
    /\ ~form.uploading
    /\ Step("submit", NoPointer, handleSubmit(Cur))
    /\ UNCHANGED fetchPending

\* the await of the handleSubmit in flight resolves (ok) or rejects
SaveSettlesAs(ok) ==
    /\ submit.stage # "idle"
    /\ Step("settle", NoPointer, settle(Cur, ok))
    /\ UNCHANGED fetchPending

SaveSettles == \E ok \in BOOLEAN : SaveSettlesAs(ok)

Next ==
    \/ SelectBackgroundImage
    \/ PlaceMarker
    \/ BeginDrag
    \/ UpdateDrag
    \/ EndDrag
    \/ Undo
    \/ Redo
    \/ SelectArea

Spec == Init /\ [][Next]_vars

EditNext ==
    \/ Next
    \/ FetchTheme
    \/ LoadInitialMarkers

EditSpec == EditInit /\ [][EditNext]_vars

SaveNext ==
    \/ Next
    \/ LoadInitialMarkers
    \/ ChangeField
    \/ Save
    \/ SaveSettles

SaveSpec == SaveInit /\ [][SaveNext]_vars

\* the await of a handleSubmit in flight settles after the last event of the
\* session
SaveCompletesAs(ok) ==
    /\ handled = MaxEvents
    /\ submit.stage # "idle"
    /\ Handle("settle", NoPointer, settle(Cur, ok))
    /\ UNCHANGED <<fetchPending, handled>>

SaveCompletes == \E ok \in BOOLEAN : SaveCompletesAs(ok)

SaveLiveNext ==
    \/ SaveNext
    \/ SaveCompletes

\* every remote call of a save in flight resolves or rejects in the end
SaveLiveSpec ==
    /\ SaveInit
    /\ [][SaveLiveNext]_vars
    /\ WF_vars(SaveSettles \/ SaveCompletes)

----------------------------------------------------------------------------
(* ManageThemes and the delete button of EditThemePage                      *)

\* the page of the theme deletion handles an event or a settled call
Removal(r) ==
    /\ ~removal.navigated
    /\ removal' = r
    /\ UNCHANGED <<hostVars, gallery>>

\* ManageThemes: <div onClick={() => setSelectedTheme(theme)}>
SelectThemeOf(theme) ==
    /\ removal.page = "manage"
    /\ theme \in removal.themes
    /\ removal.selectedTheme = NoTheme
    /\ Removal([removal EXCEPT !.selectedTheme = theme])

SelectTheme == \E theme \in RemoteThemes : SelectThemeOf(theme)

\* ManageThemes: the Close button of the modal
CloseTheme ==
    /\ removal.selectedTheme # NoTheme
    /\ ~removal.confirmDelete
    /\ Removal([removal EXCEPT !.selectedTheme = NoTheme])

\* ManageThemes: the Delete button of the modal
AskDelete ==
    /\ removal.selectedTheme # NoTheme
    /\ ~removal.confirmDelete
    /\ Removal([removal EXCEPT !.themeToDelete = removal.selectedTheme,
                               !.confirmDelete = TRUE])

\* ManageThemes: the No button of the confirmation dialog
DeclineDelete ==
    /\ removal.selectedTheme # NoTheme
    /\ removal.confirmDelete
    /\ Removal([removal EXCEPT !.confirmDelete = FALSE])

\* ManageThemes: the Yes button of the confirmation dialog
ConfirmDelete ==
    /\ removal.selectedTheme # NoTheme
    /\ removal.confirmDelete
    /\ removal.stage = "idle"
    /\ Removal(handleDelete(removal, removal.themeToDelete.id))

\* EditThemePage: the Delete Theme button
DeleteTheme ==
    /\ removal.page = "edit"
    /\ removal.stage = "idle"
    /\ Removal(handleDelete(removal, "T1"))

\* a call in flight resolves or rejects
CallSettlesAs(c, ok) ==
    /\ c \in removal.calls
    /\ removal' = Settled(removal, c, ok)
    /\ UNCHANGED <<hostVars, gallery>>

CallSettles ==
    \E c \in removal.calls, ok \in BOOLEAN : CallSettlesAs(c, ok)

DeleteInit ==
    \E p \in {"manage", "edit"} : Mounted(p) /\ form = FormOf("")

DeleteNext ==
    \/ SelectTheme
    \/ CloseTheme
    \/ AskDelete
    \/ DeclineDelete
    \/ ConfirmDelete
    \/ DeleteTheme
    \/ CallSettles

DeleteSpec == DeleteInit /\ [][DeleteNext]_vars

----------------------------------------------------------------------------
(* Gallery                                                                  *)

\* the gallery handles an event
Reviewed(type, g) ==
    /\ gallery' = [g EXCEPT !.last = type]
    /\ UNCHANGED <<hostVars, removal>>

\* <select onChange={(e) => setReviewStatus(e.target.value)}>
SetReviewStatusTo(status) ==
    /\ status # gallery.reviewStatus
    /\ Reviewed("status", [gallery EXCEPT !.reviewStatus = status])

SetReviewStatus == \E status \in ReviewStatuses : SetReviewStatusTo(status)

\* the Search button
FetchDrawings ==
    /\ Len(gallery.calls) < MaxCalls
    /\ Reviewed("fetch", fetchDrawings(gallery))

\* <div onClick={() => setSelectedDrawing(drawing)}>
SelectDrawingAt(i) ==
    /\ gallery.selectedDrawing = NoDrawing
    /\ i \in DOMAIN gallery.drawings
    /\ Reviewed("select",
                [gallery EXCEPT !.selectedDrawing = gallery.drawings[i]])

SelectDrawing == \E i \in 1..Len(GalleryDrawings) : SelectDrawingAt(i)

\* the Close button of the modal
CloseDrawing ==
    /\ gallery.selectedDrawing # NoDrawing
    /\ Reviewed("close", [gallery EXCEPT !.selectedDrawing = NoDrawing])

\* the Approve button of the modal, rendered for a drawing not yet reviewed
ApproveDrawing ==
    /\ gallery.selectedDrawing # NoDrawing
    /\ ~gallery.selectedDrawing.isReviewed
    /\ Len(gallery.calls) < MaxCalls
    /\ Reviewed("approve",
                Gallery_handleApprove(gallery, gallery.selectedDrawing.id))

\* the Delete button of the modal
DeleteDrawing ==
    /\ gallery.selectedDrawing # NoDrawing
    /\ Len(gallery.calls) < MaxCalls
    /\ Reviewed("delete",
                Gallery_handleDelete(gallery, gallery.selectedDrawing.id))

\* a call in flight resolves or rejects
DrawingCallSettlesAs(i, ok) ==
    /\ i \in DOMAIN gallery.calls
    /\ ok => MayResolve(gallery, gallery.calls[i])
    /\ Reviewed("settle", Gallery_Settled(gallery, i, ok))

DrawingCallSettles ==
    \E i \in 1..MaxCalls, ok \in BOOLEAN : DrawingCallSettlesAs(i, ok)

GalleryInit == Mounted("gallery") /\ form = FormOf("")

GalleryNext ==
    \/ SetReviewStatus
    \/ FetchDrawings
    \/ SelectDrawing
    \/ CloseDrawing
    \/ ApproveDrawing
    \/ DeleteDrawing
    \/ DrawingCallSettles

GallerySpec == GalleryInit /\ [][GalleryNext]_vars

----------------------------------------------------------------------------
(* Properties.  Operation names are those of the specification:            *)
(* placeMarker = PlaceMarker, selectArea = SelectArea, beginDrag =         *)
(* BeginDrag, updateDrag = UpdateDrag, endDrag = EndDrag, undo = Undo,     *)
(* redo = Redo, selectBackgroundImage = SelectBackgroundImage.             *)

editorVars == <<coordinates, undoStack, redoStack, selectedArea, dragItemRef>>

\* the normalized position each pointer position stands for, worked out by
\* hand from ImageRect: x = (clientX - 10) / 200 * 100, y = (clientY - 20)
\* / 100 * 100
Normalized(p) ==
    CASE p = <<70, 60>>  -> [x |-> 30, y |-> 40]
      [] p = <<130, 70>> -> [x |-> 60, y |-> 50]
      [] p = <<310, 70>> -> [x |-> 150, y |-> 50]
      [] p = <<130, 0>>  -> [x |-> 60, y |-> -20]

Markers(s) == Range(s)

\* C1: placeMarker with an area armed appends exactly one new marker
\* {x, y, area = the armed area} at the end of the Coordinate List, leaving
\* the earlier elements and their order as they were, pushes that same marker
\* as the last element of the Undo Stack, and leaves the Redo Stack empty.
C1_PlaceMarkerAppends ==
    [][\A p \in Pointers :
         (PlaceMarkerAt(p) /\ selectedArea # "") =>
            /\ Len(coordinates') = Len(coordinates) + 1
            /\ SubSeq(coordinates', 1, Len(coordinates)) = coordinates
            /\ Last(coordinates').x = Normalized(p).x
            /\ Last(coordinates').y = Normalized(p).y
            /\ Last(coordinates').area = selectedArea
            /\ Last(coordinates') \notin
                 Markers(coordinates) \cup Markers(undoStack)
                                      \cup Markers(redoStack)
            /\ undoStack' = Append(undoStack, Last(coordinates'))
            /\ redoStack' = << >>]_vars

\* an armed click has just been handled on a list that already held a marker
C1_Witness ==
    /\ event = "click"
    /\ selectedArea # ""
    /\ Len(coordinates) = 2
    /\ Last(undoStack) = Last(coordinates)

\* C2: placeMarker with no area armed changes nothing: Coordinate List, Undo
\* Stack, Redo Stack, selected area and drag session are as before.
C2_UnarmedPlaceMarkerNoOp ==
    [][\A p \in Pointers :
         (PlaceMarkerAt(p) /\ selectedArea = "") => UNCHANGED editorVars]_vars

\* an unarmed click has just been handled while markers and redo history exist
C2_Witness ==
    /\ event = "click"
    /\ selectedArea = ""
    /\ coordinates # << >>
    /\ redoStack # << >>

\* C3 as stated: after any placeMarker call the Redo Stack is empty.
C3_RedoEmptyAfterAnyPlaceMarker == event = "click" => redoStack = << >>

\* C3, amended: after any placeMarker call made while an area is armed, the
\* Redo Stack is empty, whatever it held before.  (A click leaves the selected
\* area as it is, so the area read after the click is the one armed at it.)
C3_RedoEmptyAfterArmedPlaceMarker ==
    (event = "click" /\ selectedArea # "") => redoStack = << >>

\* an armed click has just been handled
C3_Witness ==
    /\ event = "click"
    /\ selectedArea # ""
    /\ redoStack = << >>
    /\ undoStack # << >>

\* C4: starting from an empty Coordinate List, after a sequence of only
\* selectArea and N armed placeMarker calls the Coordinate List has length N
\* and its i-th entry carries the area that was armed at the i-th call.
C4_AreasOfPlacements ==
    placed # Broken =>
        /\ Len(coordinates) = Len(placed)
        /\ \A i \in 1..Len(placed) : coordinates[i].area = placed[i]

\* two placements in a row, made with two different areas armed
C4_Witness ==
    /\ placed # Broken
    /\ Len(placed) = 2
    /\ placed[1] # placed[2]
    /\ event = "click"

\* s without its first element identical to v (s itself if there is none)
RECURSIVE RemoveFirst(_, _)
RemoveFirst(s, v) ==
    IF s = << >> THEN << >>
    ELSE IF Head(s) = v THEN Tail(s)
    ELSE <<Head(s)>> \o RemoveFirst(Tail(s), v)

C6_RedoMovesFrontToUndo ==
    [][(Redo /\ Len(redoStack) > 0) =>
          /\ redoStack' = Tail(redoStack)
          /\ coordinates' = Append(coordinates, Head(redoStack))
          /\ undoStack' = Append(undoStack, Head(redoStack))]_vars

\* a redo has just re-added a marker while another one stays redoable (the
\* Redo Stack is still non-empty, so it held two values before)
C6_Witness ==
    /\ event = "redo"
    /\ redoStack # << >>
    /\ undoStack # << >>
    /\ Last(coordinates) = Last(undoStack)

\* C7: undo on an empty Undo Stack and redo on an empty Redo Stack are no-ops:
\* Coordinate List, Undo Stack, Redo Stack, selected area and drag session stay
\* as they are (the handlers have no failing outcome: each yields a state).
C7_EmptyUndoRedoNoOp ==
    [][((Undo /\ undoStack = << >>) \/ (Redo /\ redoStack = << >>))
          => UNCHANGED editorVars]_vars

\* an undo was just handled and both stacks are empty, so the Undo Stack was
\* empty when it was called (an undo that acts leaves the Redo Stack non-empty)
C7_Witness ==
    /\ event = "undo"
    /\ undoStack = << >>
    /\ redoStack = << >>
    /\ selectedArea # ""

\* the markers of s, with the number of times each occurs
Occurrences(s, m) == Cardinality({ i \in 1..Len(s) : s[i] = m })

SameMarkers(s, u) ==
    /\ Len(s) = Len(u)
    /\ \A m \in Markers(s) \cup Markers(u) : Occurrences(s, m) = Occurrences(u, m)

\* C8: from any reachable state with a non-empty Undo Stack, undo immediately
\* followed by redo yields a Coordinate List whose last element is the marker
\* value undo popped and that contains the same markers as before the undo.
C8_UndoRedoRestoresMarkers ==
    Len(undoStack) > 0 =>
        LET after == handleRedo(handleUndo(Cur)).coordinates
        IN /\ after # << >>
           /\ Last(after) = Last(undoStack)
           /\ SameMarkers(after, coordinates)

\* C9: "top" is armed on the empty editor and a click lands on normalized
\* (30, 40): Coordinate List = Undo Stack = [m], Redo Stack = [], with
\* m = {x: 30, y: 40, area: top}; undo then gives [], [], [m]; redo then gives
\* [m], [m], [].
C9_IsM(m) == m.x = 30 /\ m.y = 40 /\ m.area = "top"

C9_Scenario ==
    /\ scenario = 2 =>
         /\ Len(coordinates) = 1 /\ C9_IsM(coordinates[1])
         /\ undoStack = coordinates
         /\ redoStack = << >>
    /\ scenario = 3 =>
         /\ coordinates = << >>
         /\ undoStack = << >>
         /\ Len(redoStack) = 1 /\ C9_IsM(redoStack[1])
    /\ scenario = 4 =>
         /\ Len(coordinates) = 1 /\ C9_IsM(coordinates[1])
         /\ undoStack = coordinates
         /\ redoStack = << >>

\* the scenario has run to its end: select, place, undo, redo
C9_Witness == scenario = 4 /\ event = "redo"

\* C10: an updateDrag in an active drag session whose x or y is outside
\* [0, 100] changes no marker and leaves the session active on the same index;
\* a later updateDrag of the same session with x and y in bounds moves the
\* marker at the active index to that x, y and keeps its area.
C10_OutOfBoundsDragDiscarded ==
    [][\A p \in MovePointers :
         (UpdateDragTo(p) /\ dragItemRef # nullIndex) =>
            LET n == Normalized(p)
                i == dragItemRef + 1
            IN IF n.x < 0 \/ n.x > 100 \/ n.y < 0 \/ n.y > 100
               THEN /\ coordinates' = coordinates
                    /\ dragItemRef' = dragItemRef
               ELSE (dragTrace # "none" /\ i \in 1..Len(coordinates)) =>
                    /\ coordinates'[i].x = n.x
                    /\ coordinates'[i].y = n.y
                    /\ coordinates'[i].area = coordinates[i].area
                    /\ dragItemRef' = dragItemRef]_vars

\* the session on marker 0 discarded an out-of-bounds move and has now moved
\* the marker to (60, 50)
C10_Witness ==
    /\ dragTrace = "recovered"
    /\ event = "mousemove"
    /\ dragItemRef = 0
    /\ coordinates # << >>
    /\ coordinates[1].x = 60 /\ coordinates[1].y = 50

\* C11: an in-bounds updateDrag with active drag index i replaces only the x
\* and y of the element at position i of the Coordinate List: its area is
\* kept, the length of the list is unchanged, and every element at another
\* position is the same object at the same position.
C11_InBoundsDragReplacesOnlyXY ==
    [][\A p \in MovePointers :
         LET n == Normalized(p)
         IN (/\ UpdateDragTo(p)
             /\ dragItemRef # nullIndex
             /\ n.x >= 0 /\ n.x <= 100 /\ n.y >= 0 /\ n.y <= 100) =>
                /\ Len(coordinates') = Len(coordinates)
                /\ \A k \in 1..Len(coordinates) :
                     IF k = dragItemRef + 1
                     THEN /\ coordinates'[k].x = n.x
                          /\ coordinates'[k].y = n.y
                          /\ coordinates'[k].area = coordinates[k].area
                     ELSE coordinates'[k] = coordinates[k]]_vars

\* the second of two markers has just been moved to (60, 50): it is a new
\* object, the first is still the object of the Undo Stack
C11_Witness ==
    /\ event = "mousemove"
    /\ dragItemRef = 1
    /\ Len(coordinates) = 2
    /\ Len(undoStack) = 2
    /\ coordinates[2].x = 60 /\ coordinates[2].y = 50
    /\ coordinates[2] # undoStack[2]
    /\ coordinates[1] = undoStack[1]

\* C12: beginDrag, updateDrag (in bounds or out of bounds) and endDrag never
\* change the Undo Stack or the Redo Stack, in contents or length.
C12_DragLeavesStacks ==
    [][(BeginDrag \/ UpdateDrag \/ EndDrag) =>
          /\ undoStack' = undoStack
          /\ redoStack' = redoStack]_vars

\* a marker was moved while both stacks held a value: the moved marker is a
\* new object, the stacks still hold the objects they held
C12_Witness ==
    /\ event = "mousemove"
    /\ dragItemRef = 0
    /\ Len(coordinates) = 1
    /\ Len(undoStack) = 1
    /\ Len(redoStack) = 1
    /\ coordinates[1] # undoStack[1]
    /\ coordinates[1].x = 60

\* C13: updateDrag while no drag session is active changes nothing, whatever
\* the pointer position: Coordinate List, both stacks, selected area and drag
\* session stay as they are.
C13_UpdateDragWithoutSessionNoOp ==
    [][(UpdateDrag /\ dragItemRef = nullIndex) => UNCHANGED editorVars]_vars

\* a mouse move was just handled with no session active and a marker placed
C13_Witness ==
    /\ event = "mousemove"
    /\ dragItemRef = nullIndex
    /\ coordinates # << >>
    /\ selectedArea # ""

\* x and y of a marker lie in [0, 100]
C14_InRange(m) == m.x >= 0 /\ m.x <= 100 /\ m.y >= 0 /\ m.y <= 100

\* the out-of-range markers among the elements of s
C14_OutOfRange(s) == { m \in Markers(s) : ~C14_InRange(m) }

\* C14 as stated: in every reachable state, every marker in the Coordinate
\* List satisfies 0 <= x <= 100 and 0 <= y <= 100.
C14_MarkersInRange == \A m \in Markers(coordinates) : C14_InRange(m)

\* C14, amended: a marker of the Coordinate List (or of a stack) lies outside
\* 0 <= x <= 100, 0 <= y <= 100 only if an armed placeMarker whose pointer
\* position maps outside that range placed it there: no step adds an
\* out-of-range marker other than the marker such a placeMarker appends, and
\* updateDrag only ever moves a marker to an in-range position.
C14_OutOfRangeOnlyByPlaceMarker ==
    [][LET before == C14_OutOfRange(coordinates) \cup C14_OutOfRange(undoStack)
                       \cup C14_OutOfRange(redoStack)
           after == C14_OutOfRange(coordinates') \cup C14_OutOfRange(undoStack')
                       \cup C14_OutOfRange(redoStack')
       IN /\ after \subseteq before
             \/ /\ selectedArea # ""
                /\ \E p \in Pointers :
                      /\ PlaceMarkerAt(p)
                      /\ ~C14_InRange(Normalized(p))
                      /\ after \ before = {Last(coordinates')}
          /\ UpdateDrag =>
                \A k \in 1..Len(coordinates) :
                    coordinates'[k] # coordinates[k] => C14_InRange(coordinates'[k])
      ]_vars

\* a marker placed off the image, at (150, 50), has just been dragged to
\* (60, 50), next to a marker placed on the image
C14_Witness ==
    /\ event = "mousemove"
    /\ dragItemRef = 0
    /\ Len(coordinates) = 2
    /\ Len(undoStack) = 2
    /\ undoStack[1].x = 150
    /\ coordinates[1] # undoStack[1]
    /\ coordinates[1].x = 60 /\ coordinates[1].y = 50
    /\ C14_InRange(coordinates[2])

\* C15: an armed placeMarker whose pointer position maps to an x or y outside
\* [0, 100] is still recorded: the marker is appended to the Coordinate List
\* and pushed on the Undo Stack with the out-of-range coordinates, whereas an
\* updateDrag to the same pointer position changes no marker.
C15_OutOfRangePlacementRecorded ==
    [][\A p \in Pointers \cap MovePointers :
         ~C14_InRange(Normalized(p)) =>
            /\ (PlaceMarkerAt(p) /\ selectedArea # "") =>
                  /\ coordinates' # << >>
                  /\ Front(coordinates') = coordinates
                  /\ Last(coordinates').x = Normalized(p).x
                  /\ Last(coordinates').y = Normalized(p).y
                  /\ ~C14_InRange(Last(coordinates'))
                  /\ undoStack' = Append(undoStack, Last(coordinates'))
            /\ UpdateDragTo(p) => coordinates' = coordinates]_vars

\* an armed click off the image has just been recorded at (150, 50) after a
\* marker placed on the image
C15_Witness ==
    /\ event = "click"
    /\ selectedArea # ""
    /\ Len(coordinates) = 2
    /\ coordinates[2].x = 150 /\ coordinates[2].y = 50
    /\ C14_InRange(coordinates[1])
    /\ Last(undoStack) = coordinates[2]

\* selectArea(a) sets the selected area to a unless a is already the selected
\* area, in which case it clears the selection; it never changes the
\* Coordinate List, the Undo Stack, the Redo Stack or the drag session
C16_Toggles ==
    \A a \in Areas :
        SelectAreaOf(a) =>
            /\ selectedArea' = (IF selectedArea = a THEN "" ELSE a)
            /\ UNCHANGED <<coordinates, undoStack, redoStack, dragItemRef>>

\* the last two events handled were selectArea(a) and selectArea(a)
C16_Twice(a) ==
    /\ event' = "toggleArea"
    /\ event = "toggleArea"
    /\ input' = <<a, a>>

\* C16 as stated: selectArea(a) sets or clears as above, so that selectArea(a)
\* twice in a row always ends with no area armed.
C16_SelectAreaTwiceAlwaysClears ==
    [][/\ C16_Toggles
       /\ \A a \in Areas : C16_Twice(a) => selectedArea' = ""]_vars

\* C16, amended: selectArea(a) sets or clears as above, so that
\* selectArea(a) twice in a row ends with the selection it started from if
\* that was a or none: with no area armed unless a was armed before the first
\* of the two calls (then the first call cleared the selection, and the
\* second arms a again).
C16_SelectAreaTwiceRestores ==
    [][/\ C16_Toggles
       /\ \A a \in Areas :
             C16_Twice(a) =>
                selectedArea' = (IF selectedArea = "" THEN a ELSE "")]_vars

\* selectArea("top") was handled twice in a row and "top" is armed, next to
\* a placed marker
C16_Witness ==
    /\ event = "toggleArea"
    /\ input = <<"top", "top">>
    /\ selectedArea = "top"
    /\ coordinates # << >>

\* C17: endDrag always leaves the drag session at none and is idempotent:
\* with no session active it changes nothing, a second endDrag yields the
\* state the first one yielded, and endDrag never changes the Coordinate List
\* or the stacks.
C17_EndDragIdempotent ==
    [][EndDrag =>
          /\ dragItemRef' = nullIndex
          /\ UNCHANGED <<coordinates, undoStack, redoStack, selectedArea>>
          /\ dragItemRef = nullIndex => UNCHANGED editorVars
          /\ event = "mouseup" => UNCHANGED editorVars
          /\ handleDragEnd(handleDragEnd(Cur)) = handleDragEnd(Cur)]_vars

\* an endDrag has just been handled with no session active (the session in
\* which the marker was moved had been ended before)
C17_Witness ==
    /\ event = "mouseup"
    /\ input = <<"idle">>
    /\ dragItemRef = nullIndex
    /\ Len(coordinates) = 1
    /\ Len(undoStack) = 1
    /\ coordinates[1] # undoStack[1]

\* C18: the drag session becomes active only by beginDrag, which sets the
\* active index to the index given, whatever index was active; it becomes
\* none only by endDrag; updateDrag, placeMarker, undo, redo, selectArea and
\* selectBackgroundImage never change it.
C18_DragSessionLifecycle ==
    [][/\ \A index \in 0..(MaxObjects - 1), p \in Pointers :
             BeginDragOf(index, p) => dragItemRef' = index
       /\ EndDrag => dragItemRef' = nullIndex
       /\ (UpdateDrag \/ PlaceMarker \/ Undo \/ Redo \/ SelectArea
              \/ SelectBackgroundImage) => dragItemRef' = dragItemRef
       /\ dragItemRef' # dragItemRef =>
             IF dragItemRef' = nullIndex THEN EndDrag ELSE BeginDrag]_vars

\* a beginDrag on index 1 has just replaced the session that was active, the
\* first marker having been moved before
C18_Witness ==
    /\ event = "mousedown"
    /\ input = <<"dragging">>
    /\ dragItemRef = 1
    /\ Len(coordinates) = 2
    /\ Len(undoStack) = 2
    /\ coordinates[1] # undoStack[1]
    /\ coordinates[2] = undoStack[2]

\* C20: no editor operation reaches an error state, and the calls outside
\* their preconditions change neither the Coordinate List nor the stacks: a
\* click with nothing armed, an out-of-bounds drag update, undo on an empty
\* Undo Stack, redo on an empty Redo Stack, and an updateDrag whose active
\* index no longer refers to an element of the list.  (Each handler yields a
\* state for every state and event: the steps below exist.)
C20_Stacks == <<coordinates, undoStack, redoStack>>

C20_SilentNoOps ==
    [][/\ (PlaceMarker /\ selectedArea = "") => UNCHANGED C20_Stacks
       /\ \A p \in MovePointers :
             (UpdateDragTo(p) /\ ~C14_InRange(Normalized(p)))
                 => UNCHANGED C20_Stacks
       /\ (Undo /\ undoStack = << >>) => UNCHANGED C20_Stacks
       /\ (Redo /\ redoStack = << >>) => UNCHANGED C20_Stacks
       /\ (UpdateDrag /\ dragItemRef # nullIndex
                      /\ dragItemRef >= Len(coordinates))
             => UNCHANGED C20_Stacks]_vars

\* an in-bounds updateDrag has just been handled with active index 1 while
\* the list holds one marker: an undo shortened the list during the session
C20_Witness ==
    /\ event = "mousemove"
    /\ input = <<"in">>
    /\ dragItemRef = 1
    /\ Len(coordinates) = 1
    /\ Len(redoStack) = 1

\* C19: in the edit-existing-theme flow, once the stored markers have been
\* loaded, no later re-firing of the seeding step removes, reorders or
\* reverts a marker the admin placed, dragged, undid or redid afterwards:
\* every placeMarker, updateDrag, undo and redo leaves the Coordinate List
\* its handler makes, and the seeding step run on its own leaves the list as
\* it is.
C19_SeedNeverReverts ==
    [][~fetchPending =>
          /\ \A p \in Pointers :
                PlaceMarkerAt(p) =>
                   coordinates' = handleImageClick(Cur, MouseEvent(p)).coordinates
          /\ \A p \in MovePointers :
                UpdateDragTo(p) =>
                   coordinates' = handleDrag(Cur, MouseEvent(p)).coordinates
          /\ Undo => coordinates' = handleUndo(Cur).coordinates
          /\ Redo => coordinates' = handleRedo(Cur).coordinates
          /\ LoadInitialMarkers => coordinates' = coordinates]_vars

\* C21 as stated: the value redo() removes from the front of the Redo Stack is
\* the oldest-undone value: among the markers in the Redo Stack, the one whose
\* undo() happened earliest.
C21_RedoTakesOldestUndone ==
    [][(Redo /\ redoStack # << >>) =>
          /\ log.undone # << >>
          /\ Head(redoStack).id = Head(log.undone)
          /\ Head(redoStack) \notin Markers(redoStack')]_vars

\* C21, amended: the value redo() removes from the front of the Redo Stack is
\* the most recently undone value: among the markers in the Redo Stack, the
\* one whose undo() happened latest.
C21_RedoTakesLatestUndone ==
    [][(Redo /\ redoStack # << >>) =>
          /\ log.undone # << >>
          /\ Head(redoStack).id = Last(log.undone)
          /\ Head(redoStack) \notin Markers(redoStack')]_vars

\* two markers were undone and a redo has just taken one back: the marker
\* left in the Redo Stack is the one undone first
C21_Witness ==
    /\ event = "redo"
    /\ Len(redoStack) = 1
    /\ Len(undoStack) = 1
    /\ log.undone = <<redoStack[1].id>>
    /\ log.done = <<undoStack[1].id>>
    /\ redoStack[1] \notin Markers(coordinates)

\* s in reverse order
Reverse(s) == [i \in 1..Len(s) |-> s[Len(s) + 1 - i]]

\* C22: in every reachable state the Undo Stack is ordered most-recent-last
\* (its markers in the order in which they were placed or redone, the last
\* being the one placed or redone most recently) and the Redo Stack is
\* ordered most-recent-first (its markers in the reverse of the order in which
\* they were undone, the first being the one undone most recently).
C22_StackOrders ==
    /\ Ids(undoStack) = log.done
    /\ Ids(redoStack) = Reverse(log.undone)

\* two markers have been undone one after the other and are both redoable
C22_Witness ==
    /\ event = "undo"
    /\ Len(redoStack) = 2
    /\ Len(log.undone) = 2
    /\ log.undone[1] # log.undone[2]
    /\ redoStack[1].id = log.undone[2]

\* the markers of the Coordinate List s that an updateDrag made, in order
C23_Moved(s) == SelectSeq(s, LAMBDA m : m.id \in log.moved)

C24_Files == Files \cup {"b.png"}

\* what handleFileChange makes of the current state for a picked file
C24_Picked(file) == handleFileChange(Cur, ChangeEvent(file))

\* C24: selectBackgroundImage with a file gives the parent the raw file and a
\* preview URL for that same file and changes nothing else (Coordinate List,
\* Undo Stack, Redo Stack, selected area and drag session stay, so markers
\* placed on a previous image stay); with no file selected it changes
\* nothing at all.  Checked on every selectBackgroundImage step and, in every
\* state reached, for every file that could be picked there.
C24_SelectBackgroundImageFrame ==
    [][/\ \A file \in Files :
            SelectBackgroundImageOf(file) =>
                /\ backgroundImg' = file
                /\ backgroundImgUrl' = createObjectURL(file)
                /\ UNCHANGED editorVars
       /\ SelectBackgroundImageOf(undefined) =>
            UNCHANGED <<editorVars, backgroundImg, backgroundImgUrl>>
       /\ \A file \in C24_Files :
            C24_Picked(file)' =
                [Cur' EXCEPT !.backgroundImg = file,
                             !.backgroundImgUrl = createObjectURL(file)]
       /\ C24_Picked(undefined)' = Cur']_vars

\* an image was picked while markers placed on the previous image, an armed
\* area and both stacks were there, and they are still there
C24_Witness ==
    /\ event = "change"
    /\ input = <<"a.png">>
    /\ Len(coordinates) = 1
    /\ Len(undoStack) = 1
    /\ Len(redoStack) = 1
    /\ selectedArea # ""
    /\ backgroundImg = "a.png"
    /\ backgroundImgUrl = createObjectURL("a.png")

\* the state s with the text fields holding the values f gives them
C25_WithFields(s, f) ==
    [s EXCEPT !.themeName = f["themeName"],
              !.description = f["description"],
              !.aiPrompts = f["aiPrompts"],
              !.topAreaName = f["topAreaName"],
              !.centerAreaName = f["centerAreaName"],
              !.bottomAreaName = f["bottomAreaName"]]

\* a required field of the page is missing in s
C25_Missing(s) ==
    \/ \E field \in TextFields : setField(s, field, "") = s
    \/ page = "new" /\ s.backgroundImg = null

\* a save of s with a required field missing only sets the error
C25_OnlyError(s) ==
    C25_Missing(s) =>
        handleSubmit(s) = [s EXCEPT !.error = "All fields are required."]

\* C25: the Coordinate List reaches external persistence only through an
\* explicit save: every write to Themes is made by a handleSubmit that a
\* submit of the form started, and writes the list the page held at that
\* submit.  A save with any required field missing performs no upload and no
\* database write: it only sets the error "All fields are required." and
\* leaves the Coordinate List, the stacks and the uploading flag unchanged.
\* Checked on every step and, in every state in which the form is submitted,
\* for every way of filling the text fields.
C25_PersistedOnlyBySave ==
    [][/\ firebase'.Themes # firebase.Themes =>
            /\ event' = "settle"
            /\ submit.stage \in {"addDoc", "updateDoc"}
            /\ firebase'.Themes =
                  Append(firebase.Themes, Stored(submit.coordinates))
       /\ submit'.stage # "idle" =>
            \/ submit.stage = "idle" /\ event' = "submit" /\ Save
                  /\ ~C25_Missing(Cur)
                  /\ submit'.coordinates = coordinates
            \/ submit.stage # "idle"
                  /\ submit'.coordinates = submit.coordinates
       /\ (event' = "submit" /\ Save /\ C25_Missing(Cur)) =>
            /\ firebase' = firebase
            /\ submit' = submit
            /\ form' = [form EXCEPT !.error = "All fields are required."]
            /\ UNCHANGED <<editorVars, backgroundImg, backgroundImgUrl>>
       /\ (event' = "submit" /\ Save) =>
            \A f \in [TextFields -> TextValues] :
                C25_OnlyError(C25_WithFields(Cur, f))]_vars

\* on EditThemePage a save with the last area name blanked was rejected,
\* the name was typed again, the next save was accepted and its updateDoc
\* has written the list of one marker
C25_Witness ==
    /\ page = "edit"
    /\ event = "settle"
    /\ input = <<"rejected", "accepted">>
    /\ form.navigated
    /\ firebase.storage = {}
    /\ firebase.Themes = << <<[x |-> 30, y |-> 40, area |-> "top"]>> >>

\* C26 as stated: in every reachable state every value in the Undo Stack is
\* identical to some element of the Coordinate List, so every undo() on a
\* non-empty Undo Stack shortens the Coordinate List by exactly one element.
C26_UndoStackInList ==
    [][/\ \A m \in Markers(undoStack') : m \in Markers(coordinates')
       /\ (Undo /\ undoStack # << >>) =>
            Len(coordinates') = Len(coordinates) - 1]_vars

\* C27: in every state reached without an updateDrag that repositioned a
\* marker, after at most one seeding that came before any marker was on the
\* Undo Stack, the Coordinate List is the seeded markers followed by the
\* contents of the Undo Stack in the same order; its length is the length of
\* the seed plus that of the Undo Stack.
C27_ListIsSeedThenUndoStack ==
    log.plain =>
        /\ Ids(coordinates) = log.seed \o Ids(undoStack)
        /\ SubSeq(coordinates, Len(log.seed) + 1, Len(coordinates)) = undoStack
        /\ Len(coordinates) = Len(log.seed) + Len(undoStack)

\* a theme of one marker was loaded, a marker was placed, undone and redone
C27_Witness ==
    /\ page = "edit"
    /\ event = "redo"
    /\ log.plain
    /\ Len(log.seed) = 1
    /\ Len(undoStack) = 1
    /\ redoStack = << >>
    /\ Len(coordinates) = 2
    /\ coordinates[1].id = log.seed[1]
    /\ coordinates[2] = undoStack[1]

\* C28: from any reachable state with a non-empty Redo Stack, redo()
\* immediately followed by undo() restores the Coordinate List, the Undo
\* Stack and the Redo Stack exactly (same elements, same order).
C28_RedoUndoRestores ==
    redoStack # << >> =>
        LET after == handleUndo(handleRedo(Cur))
        IN /\ after.coordinates = coordinates
           /\ after.undoStack = undoStack
           /\ after.redoStack = redoStack
           /\ handleRedo(Cur) # Cur

\* an undo has just been handled right after a redo, and the marker the two
\* moved is back at the front of the Redo Stack and off the list
C28_Witness ==
    /\ event = "undo"
    /\ input = <<"redo">>
    /\ log.moved = {}
    /\ Len(redoStack) = 1
    /\ undoStack = << >>
    /\ coordinates = << >>

\* C29: from any reachable state with a non-empty Undo Stack, undo()
\* immediately followed by redo() leaves the Undo Stack and the Redo Stack
\* exactly as they were; undo() and redo() never change the sum of the
\* lengths of the two stacks, and every step that changes it is a
\* placeMarker.
C29_UndoRedoKeepsStacks ==
    [][/\ undoStack # << >> =>
            LET after == handleRedo(handleUndo(Cur))
            IN /\ after.undoStack = undoStack
               /\ after.redoStack = redoStack
               /\ handleUndo(Cur) # Cur
       /\ (Undo \/ Redo) =>
            Len(undoStack') + Len(redoStack')
                = Len(undoStack) + Len(redoStack)
       /\ Len(undoStack') + Len(redoStack') # Len(undoStack) + Len(redoStack)
            => PlaceMarker]_vars

\* a redo has just been handled right after an undo, with another marker
\* waiting on the Redo Stack
C29_Witness ==
    /\ event = "redo"
    /\ input = <<"undo">>
    /\ Len(undoStack) = 1
    /\ Len(redoStack) = 1
    /\ Last(coordinates) = Last(undoStack)

\* no value occurs twice in s
C30_NoRepeat(s) == \A i, j \in 1..Len(s) : s[i] = s[j] => i = j

\* the marker objects the page references
C30_Objects ==
    Markers(coordinates) \cup Markers(undoStack) \cup Markers(redoStack)

\* C30: in every reachable state, identifying markers by object identity, no
\* marker occurs twice in the Coordinate List, none twice within the Undo
\* Stack or within the Redo Stack, none is in both stacks at once, and no
\* marker of the Redo Stack is in the Coordinate List.
C30_NoMarkerTwice ==
    /\ C30_NoRepeat(Ids(coordinates))
    /\ C30_NoRepeat(Ids(undoStack))
    /\ C30_NoRepeat(Ids(redoStack))
    /\ Range(Ids(undoStack)) \cap Range(Ids(redoStack)) = {}
    /\ Range(Ids(redoStack)) \cap Range(Ids(coordinates)) = {}
    /\ \A m, n \in C30_Objects : m.id = n.id => m = n

\* a placed marker was dragged, its placement undone, redone and undone
\* again: the list holds the repositioned marker only and the original
\* object is on the Redo Stack
C30_Witness ==
    /\ event = "undo"
    /\ input = <<"redo">>
    /\ log.moved # {}
    /\ Len(coordinates) = 1
    /\ Len(redoStack) = 1
    /\ undoStack = << >>

\* k undo() calls in a row, k redo() calls in a row
RECURSIVE C31_Undos(_, _)
C31_Undos(k, s) == IF k = 0 THEN s ELSE C31_Undos(k - 1, handleUndo(s))

RECURSIVE C31_Redos(_, _)
C31_Redos(k, s) == IF k = 0 THEN s ELSE C31_Redos(k - 1, handleRedo(s))

\* C31 as stated: with no drag in between, k consecutive undo() calls
\* followed by k consecutive redo() calls (k at most the length of the Undo
\* Stack) restore the Coordinate List and the Undo Stack to exactly their
\* contents and order before the first undo, and the Redo Stack to its prior
\* contents.
C31_UndosRedosRestore ==
    \A k \in 1..Len(undoStack) :
        LET after == C31_Redos(k, C31_Undos(k, Cur))
        IN /\ after.coordinates = coordinates
           /\ after.undoStack = undoStack
           /\ after.redoStack = redoStack

\* the markers of the Coordinate List s that fetchTheme loaded, in order
C32_Fetched(s) == SelectSeq(s, LAMBDA m : m.id \in log.fetched)

\* C32: markers that entered the Coordinate List through loadInitialMarkers
\* (the stored markers of an existing theme) are never removed by undo():
\* every marker an undo() removes was created by placeMarker in the current
\* session (it is the top of the Undo Stack, and no stack holds a loaded
\* marker), and with an empty Undo Stack undo() leaves the seeded list as it
\* is.
C32_UndoKeepsLoadedMarkers ==
    [][/\ Undo =>
            /\ C32_Fetched(coordinates') = C32_Fetched(coordinates)
            /\ \A m \in Markers(coordinates) \ Markers(coordinates') :
                  /\ undoStack # << >>
                  /\ m = Last(undoStack)
                  /\ m.id \in Range(log.done)
            /\ undoStack = << >> => coordinates' = coordinates
       /\ \A m \in Markers(undoStack') \cup Markers(redoStack') :
            m.id \notin log'.fetched]_vars

\* on EditThemePage a theme of two markers was loaded, a marker was placed
\* after them and the undo just handled took it off again: the two loaded
\* markers are the list
C32_Witness ==
    /\ page = "edit"
    /\ event = "undo"
    /\ Len(coordinates) = 2
    /\ Range(Ids(coordinates)) = log.fetched
    /\ undoStack = << >>
    /\ Len(redoStack) = 1

\* C33: every marker created by placeMarker has a non-empty area from
\* {top, center, bottom}, and no operation (drag, undo, redo, selectArea)
\* ever changes the area of a marker already in the Coordinate List or in
\* either stack: a marker object keeps its area, and the marker an updateDrag
\* puts at an index has the area of the marker it replaces.
C33_AreasFixed ==
    [][/\ PlaceMarker =>
            \A m \in Markers(coordinates') \ C30_Objects : m.area \in Areas
       /\ \A m \in C30_Objects' : m.area \in Areas
       /\ \A m \in C30_Objects : \A n \in C30_Objects' :
            m.id = n.id => n.area = m.area
       /\ (UpdateDrag \/ SelectArea) =>
            /\ Len(coordinates') = Len(coordinates)
            /\ \A i \in 1..Len(coordinates) :
                  coordinates'[i].area = coordinates[i].area
            /\ undoStack' = undoStack
            /\ redoStack' = redoStack]_vars

\* a marker was placed with one area armed, another area was armed, and the
\* in-bounds updateDrag just handled repositioned the marker: it still has
\* the area it was placed with
C33_Witness ==
    /\ event = "mousemove"
    /\ input = <<"in">>
    /\ Len(coordinates) = 1
    /\ coordinates[1].id \in log.moved
    /\ selectedArea \in Areas
    /\ coordinates[1].area \in Areas \ {selectedArea}
    /\ coordinates[1].area = undoStack[1].area

\* what the editor works on: list, stacks, armed area, drag session
C34_Editor(s) ==
    <<s.coordinates, s.undoStack, s.redoStack, s.selectedArea, s.dragItemRef>>

\* the current state as it would be with no save in flight
C34_NoSave == [Cur EXCEPT !.uploading = FALSE, !.submit = Idle]

\* the editor after an event of the given type whose handler makes n of
\* C34_NoSave
C34_Applied(type, n) == C34_Editor(Commit(type, C34_NoSave, n))

\* C34: editor operations are never blocked by an in-flight save: while the
\* save of the parent is pending, placeMarker, drag, undo and redo remain
\* enabled and each is applied, one event at a time, exactly as with no save
\* pending, without touching the save; and the list the save writes to
\* persistence is the Coordinate List as it was when the save was invoked,
\* whatever was edited while it was pending.  (Enabledness is evaluated in
\* the states in which an await of the save settles: every state with a save
\* pending.)
C34_SaveDoesNotBlockEditor ==
    [][/\ (/\ event' = "settle"
           /\ submit.stage # "idle" /\ OverlayRendered /\ handled < MaxEvents)
          =>
            /\ ENABLED Undo
            /\ ENABLED Redo
            /\ ENABLED BeginDrag \/ coordinates = << >>
            /\ ENABLED UpdateDrag
            /\ ENABLED EndDrag
            /\ ENABLED PlaceMarker \/ Cardinality(Live(Cur)) = MaxObjects
       /\ (/\ submit.stage # "idle"
           /\ event' \in {"click", "mousedown", "mousemove", "mouseup",
                           "undo", "redo"}) =>
            /\ UNCHANGED <<submit, firebase, form>>
            /\ \A p \in Pointers :
                  (event' = "click" /\ PlaceMarkerAt(p)) =>
                      C34_Editor(Cur') =
                          C34_Applied("click",
                              handleImageClick(C34_NoSave, MouseEvent(p)))
            /\ \A p \in MovePointers :
                  (event' = "mousemove" /\ UpdateDragTo(p)) =>
                      C34_Editor(Cur') =
                          C34_Applied("mousemove",
                              handleDrag(C34_NoSave, MouseEvent(p)))
            /\ \A p \in Pointers, index \in 0..(Len(coordinates) - 1) :
                  (event' = "mousedown" /\ BeginDragOf(index, p)) =>
                      C34_Editor(Cur') =
                          C34_Applied("mousedown",
                              handleDragStart(C34_NoSave, index,
                                              MouseEvent(p)))
            /\ (event' = "mouseup" /\ EndDrag) =>
                  C34_Editor(Cur') =
                      C34_Applied("mouseup", handleDragEnd(C34_NoSave))
            /\ (event' = "undo" /\ Undo) =>
                  C34_Editor(Cur') =
                      C34_Applied("undo", handleUndo(C34_NoSave))
            /\ (event' = "redo" /\ Redo) =>
                  C34_Editor(Cur') =
                      C34_Applied("redo", handleRedo(C34_NoSave))
       /\ (event' = "submit" /\ submit'.stage # "idle") =>
            submit'.coordinates = coordinates
       /\ (submit.stage # "idle" /\ submit'.stage # "idle") =>
            submit'.coordinates = submit.coordinates
       /\ firebase'.Themes # firebase.Themes =>
            /\ submit.stage # "idle"
            /\ Last(firebase'.Themes) = Stored(submit.coordinates)]_vars

\* on EditThemePage a theme of one marker was saved, a marker was placed
\* while the updateDoc was pending, and the updateDoc has written the list
\* of one marker the page held at the submit
C34_Witness ==
    /\ page = "edit"
    /\ event = "settle"
    /\ form.navigated
    /\ Len(coordinates) = 2
    /\ Len(undoStack) = 1
    /\ firebase.Themes = << <<[x |-> 30, y |-> 40, area |-> "top"]>> >>
    /\ Stored(coordinates) # Last(firebase.Themes)

\* the text fields of the form
C35_Fields(f) ==
    <<f.themeName, f.description, f.aiPrompts, f.topAreaName,
      f.centerAreaName, f.bottomAreaName>>

\* the step is a remote call of the save in flight that fails
C35_Fails ==
    /\ event' = "settle"
    /\ SaveSettlesAs(FALSE) \/ SaveCompletesAs(FALSE)

\* the safety part of C35
C35_Step ==
    /\ (event' = "submit" /\ submit'.stage # "idle") =>
          /\ ~form.uploading
          /\ form'.uploading
          /\ firebase' = firebase
    /\ firebase' # firebase => form.uploading /\ event' = "settle"
    /\ C35_Fails =>
          /\ ~form'.uploading
          /\ form'.error \in {"Error uploading theme. Please try again.",
                               "Error updating theme. Please try again."}
          /\ ~form'.navigated
          /\ coordinates' = coordinates
          /\ C35_Fields(form') = C35_Fields(form)
          /\ firebase'.Themes = firebase.Themes
    /\ form.uploading => event' # "submit"

\* C35: a validated save sets uploading to true before the first remote
\* call, and every save attempt eventually sets uploading back to false
\* whether the remote calls succeed or fail; on failure an error message is
\* set, there is no navigation, and the Coordinate List and the form fields
\* are retained; a second save cannot start while uploading is true.
C35_UploadingLifecycle ==
    /\ [][C35_Step]_vars
    /\ form.uploading ~> ~form.uploading

\* the first save of the page failed at a remote call and left the error,
\* the list of one marker and the fields; the second save, accepted because
\* uploading was false again, has been written
C35_Witness ==
    /\ event = "settle"
    /\ input = <<"accepted", "accepted">>
    /\ ~form.uploading
    /\ form.navigated
    /\ Len(firebase.Themes) = 1
    /\ Len(Last(firebase.Themes)) = 1

\* the steps of the deletion that have failed
C36_Failed == removal.failed \ {Call("getDocs", "Themes")}

\* the calls are made in the order drawings (images, then document), theme
\* document, background image, each after the ones before it have resolved
C36_Order ==
    /\ \A d \in RemoteDrawings :
          /\ (\E url \in d.enhanced_drawings :
                 Call("deleteObject", url) \in removal.issued)
               => d.original_drawing \notin removal.storage
          /\ Call("deleteDoc", d.id) \in removal.issued
               => /\ d.original_drawing \notin removal.storage
                  /\ d.enhanced_drawings \cap removal.storage = {}
    /\ \A t \in RemoteThemes :
          /\ Call("deleteDoc", t.id) \in removal.issued
               => \A d \in removal.Drawings : d.theme_id # t.id
          /\ Call("deleteObject", t.background_img) \in removal.issued
               => t \notin removal.Themes
    /\ removal.stage = "done" =>
          \A t \in RemoteThemes :
             t.id = removal.themeId => t.background_img \notin removal.storage

\* once a step has failed no call is made any more
C36_FailureStops ==
    C36_Failed # {} => removal'.issued = removal.issued

\* once a step has failed the deletion removes no theme from the list,
\* closes no dialog and does not navigate
C36_FailureKeepsLocal ==
    (C36_Failed # {} \/ removal'.failed \ removal.failed # {}) =>
       /\ removal'.stage # "done"
       /\ ~removal'.navigated
       /\ removal.calls \ removal'.calls # {} =>
             /\ removal'.themes = removal.themes
             /\ removal'.selectedTheme = removal.selectedTheme
             /\ removal'.confirmDelete = removal.confirmDelete
             /\ removal'.themeToDelete = removal.themeToDelete

\* after a failure no call is made for a chain that has failed, nor for the
\* theme document or the background image
C36_FailureStopsChain ==
    C36_Failed # {} =>
       \A c \in removal'.issued \ removal.issued :
          \E d \in RemoteDrawings :
             /\ removal.chain[d] \notin {"none", "failed"}
             /\ \/ c = Call("deleteDoc", d.id)
                \/ c.target \in d.enhanced_drawings

\* C36: theme deletion proceeds in a fixed order: all drawings of the theme
\* (their stored images, then their documents), then the theme document,
\* then the background image; if any step fails, no later step runs, the
\* theme is not removed from the locally displayed list, and no navigation
\* or dialog close happens.
C36_DeletionOrder ==
    /\ []C36_Order
    /\ [][C36_FailureStops /\ C36_FailureKeepsLocal]_vars

\* the positions of the drawing with this id in the list
C37_At(list, id) == { i \in DOMAIN list : list[i].id = id }

\* the step of the gallery
C37_Step ==
    LET c == gallery'.settled
        resolved == gallery'.last = "settle" /\ c.ok
        at == C37_At(gallery.drawings, c.arg)
    IN /\ gallery'.drawings # gallery.drawings =>
             /\ resolved
             /\ c.op = "deleteDoc" => C37_At(gallery'.Drawings, c.arg) = {}
             /\ c.op = "updateDoc" =>
                   \E i \in C37_At(gallery'.Drawings, c.arg) :
                      gallery'.Drawings[i].isReviewed
       /\ (resolved /\ c.op = "deleteDoc") =>
             /\ Cardinality(at) <= 1
             /\ \A i \in at :
                   gallery'.drawings = Without(gallery.drawings, i)
             /\ at = {} => gallery'.drawings = gallery.drawings
       /\ (resolved /\ c.op = "updateDoc") =>
             /\ Len(gallery'.drawings) = Len(gallery.drawings)
             /\ \A i \in DOMAIN gallery.drawings :
                   /\ gallery'.drawings[i].id = gallery.drawings[i].id
                   /\ gallery'.drawings[i].isReviewed =
                         (i \in at \/ gallery.drawings[i].isReviewed)
       /\ (gallery'.last = "settle" /\ ~c.ok) =>
             /\ gallery'.drawings = gallery.drawings
             /\ gallery'.selectedDrawing = gallery.selectedDrawing

\* C37: in the drawing review gallery the local drawing list changes only
\* after the corresponding remote operation succeeded: delete removes
\* exactly the drawing with that id, approve sets isReviewed to true on
\* exactly that drawing; if the remote call fails, the local list and the
\* selected drawing are unchanged.
C37_LocalFollowsRemote == [][C37_Step]_vars

\* d2 has been approved and then d1 deleted, each leaving the other drawing
\* of the list as it was
C37_Witness ==
    /\ gallery.last = "settle"
    /\ gallery.settled = [op |-> "deleteDoc", arg |-> "d1", ok |-> TRUE]
    /\ gallery.drawings = << [id |-> "d2", isReviewed |-> TRUE] >>
    /\ gallery.Drawings = << [id |-> "d2", isReviewed |-> TRUE] >>

====
